---- MODULE Spec2Model ----
(***************************************************************************)
(* A model of the ozterm terminal-emulator core (ozterm.c): the screen     *)
(* model with its two buffers, the scrollback ring, the VT escape-sequence *)
(* parser with its function-local static state, and the host entry points *)
(* ozterm_have_read_from_master, ozterm_scroll and ozterm_send_key.        *)
(*                                                                         *)
(* Bytes are the integers 0..255.  A C string is a sequence of non-zero    *)
(* bytes.  A "world" w is the record threaded through the C functions:     *)
(*   w.t   the Ozterm instance the call is made on                         *)
(*   w.ps  the static locals of ozterm_put_character (shared by every      *)
(*         instance of the process)                                        *)
(*   w.out the write_to_master callback invocations on that instance       *)
(*   w.ev  the refresh / set_character / move_cursor callback invocations  *)
(*         made during the current host call                               *)
(*   w.ub  TRUE once the call indexed outside an allocated buffer          *)
(*   w.rd  the number of bytes of the fed buffer the call has read         *)
(*   w.mem what the call finds outside the active cell buffer              *)
(***************************************************************************)
EXTENDS Integers, Sequences, FiniteSets, TLC

VARIABLES
  terminals,  \* the Ozterm instances of the process, by id
  parser,     \* the static locals of ozterm_put_character
  written,    \* by id: the byte strings handed to write_to_master, in order
  events,     \* the other callback invocations of the last host call
  ub,         \* the last host call indexed outside a buffer
  nread,      \* how many bytes of its buffer the last feed call read
  prev,       \* terminals, parser and written as they were before the last call
  lastcall,   \* the last host call
  steps       \* the number of host calls so far

vars == <<terminals, parser, written, events, ub, nread, prev, lastcall, steps>>

(***************************************************************************)
(* Bounds of the model.                                                    *)
(***************************************************************************)
Rows == 3
Cols == 3
ScrollbackLines == 2
MaxSteps == 3

(***************************************************************************)
(* Byte values of the character literals the code compares against.        *)
(***************************************************************************)
NUL == 0
BEL == 7
BS == 8
TAB == 9
LF == 10
CR == 13
ESC == 27
SP == 32
CH_hash == 35
CH_lparen == 40
CH_rparen == 41
CH_0 == 48
CH_1 == 49
CH_2 == 50
CH_3 == 51
CH_4 == 52
CH_5 == 53
CH_6 == 54
CH_7 == 55
CH_8 == 56
CH_9 == 57
CH_semi == 59
CH_gt == 62
CH_quest == 63
CH_at == 64
CH_A == 65
CH_B == 66
CH_C == 67
CH_D == 68
CH_E == 69
CH_F == 70
CH_G == 71
CH_H == 72
CH_J == 74
CH_K == 75
CH_L == 76
CH_M == 77
CH_O == 79
CH_P == 80
CH_Q == 81
CH_R == 82
CH_S == 83
CH_T == 84
CH_Z == 90
CH_lbracket == 91
CH_backslash == 92
CH_rbracket == 93
CH_c == 99
CH_d == 100
CH_f == 102
CH_h == 104
CH_l == 108
CH_m == 109
CH_n == 110
CH_r == 114
CH_t == 116
CH_tilde == 126
DEL == 127

TAB_WIDTH == 8
DEFAULT_COLOR == 10
PARAM_BUF_SIZE == 32
SEQ_BUF_SIZE == 64
OSC_BUF_SIZE == 64

(***************************************************************************)
(* C helpers.                                                              *)
(***************************************************************************)
\* Conversion of an int to int16_t at a call boundary (two's complement).
ToInt16(x) == ((x + 32768) % 65536) - 32768

IsDigit(c) == c >= CH_0 /\ c <= CH_9

\* isgraph / isspace of <ctype.h> in the C locale.
isgraph(c) == c >= 33 /\ c <= 126
isspace(c) == c = SP \/ (c >= TAB /\ c <= CR)

\* Number of leading decimal digits of a C string.
RECURSIVE DigitRun(_)
DigitRun(s) ==
  IF s = <<>> \/ ~IsDigit(Head(s)) THEN 0 ELSE 1 + DigitRun(Tail(s))

\* Value of a string of decimal digits.
RECURSIVE DigitsValue(_)
DigitsValue(s) ==
  IF s = <<>> THEN 0 ELSE 10 * DigitsValue(SubSeq(s, 1, Len(s) - 1)) + (s[Len(s)] - CH_0)

\* atoi on a string that holds only digits and ';': the leading digit run, 0 if none.
atoi(s) == DigitsValue(SubSeq(s, 1, DigitRun(s)))

\* strchr(s, ';'): 1-based position of the first ';', 0 when there is none.
RECURSIVE strchr_semi(_)
strchr_semi(s) ==
  IF s = <<>> THEN 0
  ELSE IF Head(s) = CH_semi THEN 1
  ELSE LET r == strchr_semi(Tail(s)) IN IF r = 0 THEN 0 ELSE r + 1

\* snprintf("%d") of a non-negative int.
RECURSIVE FormatDecimal(_)
FormatDecimal(n) ==
  IF n < 10 THEN <<CH_0 + n>> ELSE Append(FormatDecimal(n \div 10), CH_0 + (n % 10))

(***************************************************************************)
(* Cells, screens and the terminal instance.                               *)
(***************************************************************************)
\* A cell as memset(..., 0, ...) leaves it.
ZeroCell == [character |-> 0, color |-> 0, protected |-> 0]

\* What a read outside a cell buffer may find: memory the terminal does not
\* own.  The cell is taken unprotected, so that the scans for an unprotected
\* source end where the code's loops first look.
OutsideCells == { ZeroCell, [character |-> 255, color |-> 255, protected |-> 0] }

\* What lies outside the active cell buffer during one call: the cell a read
\* finds there, and whether a run of writes off the buffer reaches the other
\* screen's buffer.
Outside == [cell : OutsideCells, spill : BOOLEAN]

NoOutside == [cell |-> ZeroCell, spill |-> FALSE]

\* character = ' ', color = terminal->color, protected = 0.
BlankCell(t) == [character |-> SP, color |-> t.color, protected |-> 0]

\* terminal->screen_active
screen_active(t) ==
  IF t.alternative_active = 1 THEN t.screen_alternative ELSE t.screen_main

\* Assignment through terminal->screen_active.
with_active(t, s) ==
  IF t.alternative_active = 1 THEN [t EXCEPT !.screen_alternative = s]
  ELSE [t EXCEPT !.screen_main = s]

\* Assignment to terminal->screen_active->buffer.
with_buffer(w, buf) ==
  [w EXCEPT !.t = with_active(w.t, [screen_active(w.t) EXCEPT !.buffer = buf])]

InBuffer(t, idx) == idx >= 0 /\ idx < t.row_count * t.column_count

\* The refresh callback, when installed.
refresh(w) == [w EXCEPT !.ev = Append(@, <<"refresh">>)]

\* ozterm.c write_to_master: the callback is invoked when size > 0.
write_to_master(w, data) ==
  IF Len(data) > 0 THEN [w EXCEPT !.out = Append(@, data)] ELSE w

ozterm_move_cursor_rowlimit(w, row, column) ==
  LET t == w.t
      s == screen_active(t)
      r0 == ToInt16(row)
      c0 == ToInt16(column)
      r1 == IF r0 > t.row_count THEN t.row_count ELSE r0
      r2 == IF r1 < 0 THEN 0 ELSE r1
      c1 == IF c0 >= t.column_count THEN t.column_count - 1 ELSE c0
      c2 == IF c1 < 0 THEN 0 ELSE c1
  IN [w EXCEPT !.ev = Append(@, <<"move_cursor", s.cursor_row, s.cursor_column, r2, c2>>),
               !.t = with_active(t, [s EXCEPT !.cursor_row = r2, !.cursor_column = c2])]

ozterm_move_cursor(w, row, column) ==
  LET t == w.t
      s == screen_active(t)
      r0 == ToInt16(row)
      c0 == ToInt16(column)
      r1 == IF r0 >= t.row_count THEN t.row_count - 1 ELSE r0
      r2 == IF r1 < 0 THEN 0 ELSE r1
      c1 == IF c0 >= t.column_count THEN t.column_count - 1 ELSE c0
      c2 == IF c1 < 0 THEN 0 ELSE c1
  IN [w EXCEPT !.ev = Append(@, <<"move_cursor", s.cursor_row, s.cursor_column, r2, c2>>),
               !.t = with_active(t, [s EXCEPT !.cursor_row = r2, !.cursor_column = c2])]

ozterm_move_cursor_diff(w, row, column) ==
  LET s == screen_active(w.t)
  IN ozterm_move_cursor(w, s.cursor_row + ToInt16(row), s.cursor_column + ToInt16(column))

ozterm_clear(w) ==
  LET t == w.t
      video == screen_active(t).buffer
  IN ozterm_move_cursor(with_buffer(w, [i \in DOMAIN video |-> BlankCell(t)]), 0, 0)

ozterm_reset_attributes(w) ==
  [w EXCEPT !.t = with_active(w.t, [screen_active(w.t) EXCEPT !.attr_protected = 0])]

\* The static locals of ozterm_put_character at program start.
ParserInit ==
  [parse_state |-> "NORMAL", param_buf |-> <<>>, param_len |-> 0, seq_len |-> 0,
   osc_buf |-> <<>>, osc_index |-> 0, final_byte |-> 0, is_private |-> 0]

\* A screen as ozterm_create allocates it: zeroed struct, zeroed buffer.
ZeroScreen(row_count, column_count) ==
  [buffer |-> [i \in 0..(row_count * column_count - 1) |-> ZeroCell],
   cursor_row |-> 0, cursor_column |-> 0, attr_protected |-> 0]

\* ozterm_create: no callback is installed yet, so the events of the final
\* ozterm_clear reach nobody.
ozterm_create(row_count, column_count) ==
  LET t0 == [row_count |-> row_count,
             column_count |-> column_count,
             screen_main |-> ZeroScreen(row_count, column_count),
             screen_alternative |-> ZeroScreen(row_count, column_count),
             alternative_active |-> 0,
             saved_cursor_row |-> 0,
             saved_cursor_column |-> 0,
             scroll_top |-> 0,
             scroll_bottom |-> row_count - 1,
             color |-> DEFAULT_COLOR,
             scrollback |-> [i \in 0..(ScrollbackLines - 1) |->
                               [x \in 0..(column_count - 1) |-> ZeroCell]],
             scrollback_head |-> 0,
             scrollback_count |-> 0,
             scroll_offset |-> 0]
  IN ozterm_clear([t |-> t0, ps |-> ParserInit, out |-> <<>>, ev |-> <<>>,
                   ub |-> FALSE, rd |-> 0, mem |-> NoOutside]).t

(***************************************************************************)
(* Grid operations.  The row loops copy from rows the loop has not yet     *)
(* written (the source row lies ahead of the destination in the loop's     *)
(* direction), so each is one simultaneous assignment followed by the      *)
(* clearing loop.                                                          *)
(***************************************************************************)
\* The body shared by the "clear" loops: every cell of rows [first, last].
ClearRows(t, buf, first, last) ==
  [idx \in DOMAIN buf |->
     LET row == idx \div t.column_count
     IN IF row >= first /\ row <= last THEN BlankCell(t) ELSE buf[idx]]

\* for row in [first, last]: if (!buf[to].protected) buf[to] = buf[to + delta rows]
MoveRows(t, buf, first, last, delta) ==
  [idx \in DOMAIN buf |->
     LET row == idx \div t.column_count
     IN IF row >= first /\ row <= last /\ buf[idx].protected = 0
        THEN buf[idx + delta * t.column_count]
        ELSE buf[idx]]

\* ozterm_scroll_up_region over the whole screen, whatever the region.
ozterm_scroll_up_region_whole_screen(w, lines) ==
  LET t == w.t
      top == 0
      bottom == t.row_count - 1
      buf == screen_active(t).buffer
      l1 == IF lines <= 0 THEN 1 ELSE lines
      n == IF l1 > bottom - top + 1 THEN bottom - top + 1 ELSE l1
      moved == MoveRows(t, buf, top, bottom - n, n)
  IN refresh(with_buffer(w, ClearRows(t, moved, bottom - n + 1, bottom)))

ozterm_scroll_up_region(w, lines) ==
  LET t == w.t
      top == t.scroll_top
      bottom == t.scroll_bottom
      buf == screen_active(t).buffer
      l1 == IF lines <= 0 THEN 1 ELSE lines
      n == IF l1 > bottom - top + 1 THEN bottom - top + 1 ELSE l1
      moved == MoveRows(t, buf, top, bottom - n, n)
  IN refresh(with_buffer(w, ClearRows(t, moved, bottom - n + 1, bottom)))

ozterm_scroll_down_region(w, lines) ==
  LET t == w.t
      top == t.scroll_top
      bottom == t.scroll_bottom
      buf == screen_active(t).buffer
      l1 == IF lines <= 0 THEN 1 ELSE lines
      n == IF l1 > bottom - top + 1 THEN bottom - top + 1 ELSE l1
      moved == MoveRows(t, buf, top + n, bottom, -n)
  IN refresh(with_buffer(w, ClearRows(t, moved, top, top + n - 1)))

\* The eviction step without the test that saturates scrollback_count.
scrollback_push_unsaturated(t, top) ==
  LET buf == screen_active(t).buffer
      line == [x \in 0..(t.column_count - 1) |-> buf[top * t.column_count + x]]
  IN [t EXCEPT !.scrollback[t.scrollback_head] = line,
               !.scrollback_head = (t.scrollback_head + 1) % ScrollbackLines,
               !.scrollback_count = @ + 1]

\* The eviction step with a head that stops advancing once the ring is full.
scrollback_push_head_stays(t, top) ==
  LET buf == screen_active(t).buffer
      line == [x \in 0..(t.column_count - 1) |-> buf[top * t.column_count + x]]
  IN [t EXCEPT !.scrollback[t.scrollback_head] = line,
               !.scrollback_head =
                  IF t.scrollback_count < ScrollbackLines
                  THEN (t.scrollback_head + 1) % ScrollbackLines ELSE @,
               !.scrollback_count =
                  IF t.scrollback_count < ScrollbackLines THEN @ + 1 ELSE @]

\* One iteration of the eviction loop of ozterm_scroll_up: memcpy of row `top`
\* of the active buffer into scrollback[scrollback_head], then head and count.
scrollback_push(t, top) ==
  LET buf == screen_active(t).buffer
      line == [x \in 0..(t.column_count - 1) |-> buf[top * t.column_count + x]]
  IN [t EXCEPT !.scrollback[t.scrollback_head] = line,
               !.scrollback_head = (t.scrollback_head + 1) % ScrollbackLines,
               !.scrollback_count =
                  IF t.scrollback_count < ScrollbackLines THEN @ + 1 ELSE @]

RECURSIVE scroll_up_evict(_, _, _)
scroll_up_evict(t, l, lines) ==
  IF l >= lines THEN t
  ELSE scroll_up_evict(scrollback_push(t, t.scroll_top + l), l + 1, lines)

ozterm_scroll_up(w, lines) ==
  LET l1 == IF lines <= 0 THEN 1 ELSE lines
  IN ozterm_scroll_up_region([w EXCEPT !.t = scroll_up_evict(w.t, 0, l1)], l1)

\* ozterm_insert_lines without the test that from_row lies in the region.
ozterm_insert_lines_any_row(w, from_row, count) ==
  LET t == w.t
      top == from_row
      bottom == t.scroll_bottom
      buf == screen_active(t).buffer
      n == IF count > bottom - top + 1 THEN bottom - top + 1 ELSE count
      moved == MoveRows(t, buf, top + n, bottom, -n)
  IN IF count <= 0 \/ top > bottom THEN w
     ELSE refresh(with_buffer(w, ClearRows(t, moved, top, top + n - 1)))

ozterm_insert_lines(w, from_row, count) ==
  LET t == w.t
      top == from_row
      bottom == t.scroll_bottom
      buf == screen_active(t).buffer
      n == IF count > bottom - top + 1 THEN bottom - top + 1 ELSE count
      moved == MoveRows(t, buf, top + n, bottom, -n)
  IN IF count <= 0 THEN w
     ELSE IF top < t.scroll_top \/ top > bottom THEN w
     ELSE refresh(with_buffer(w, ClearRows(t, moved, top, top + n - 1)))

ozterm_delete_lines(w, from_row, count) ==
  LET t == w.t
      top == from_row
      bottom == t.scroll_bottom
      buf == screen_active(t).buffer
      n == IF count > bottom - top + 1 THEN bottom - top + 1 ELSE count
      moved == MoveRows(t, buf, top, bottom - n, n)
  IN IF count <= 0 THEN w
     ELSE IF top < t.scroll_top \/ top > bottom THEN w
     ELSE refresh(with_buffer(w, ClearRows(t, moved, bottom - n + 1, bottom)))

(***************************************************************************)
(* Insert / delete characters.  video = buffer + cursor_row * column_count *)
(* is the base the loops index from; the loops are run cell by cell, in    *)
(* the code's order.  r is [buf, ub, cut, mem]: the buffer so far, whether *)
(* an index fell outside the buffer, whether a write did, and the cell a   *)
(* read outside the buffer finds there.  A read outside the buffer yields  *)
(* r.mem.cell and the loop goes on; at the first write outside the buffer  *)
(* the loops are cut short: of what they overwrite from there on, the      *)
(* model keeps the cells of the other screen (spill_into_other).           *)
(***************************************************************************)
\* video[i], read.
video_at(t, r, base, i) == IF InBuffer(t, base + i) THEN r.buf[base + i] ELSE r.mem.cell

\* while (src >= x && video[src].protected) src--;
RECURSIVE insert_skip_source(_, _, _, _, _)
insert_skip_source(t, r, base, x, src) ==
  IF src >= x /\ video_at(t, r, base, src).protected # 0
  THEN insert_skip_source(t, r, base, x, src - 1)
  ELSE src

\* for (i = column_count - 1; i >= x + count; --i)
RECURSIVE insert_shift(_, _, _, _, _, _)
insert_shift(t, r, base, x, count, i) ==
  IF i < x + count \/ r.cut THEN r
  ELSE IF ~InBuffer(t, base + i) THEN [r EXCEPT !.ub = TRUE, !.cut = TRUE]
  ELSE IF r.buf[base + i].protected = 0
  THEN LET src == insert_skip_source(t, r, base, x, i - count)
       IN insert_shift(t,
            [r EXCEPT !.buf[base + i] =
                        IF src >= x THEN video_at(t, r, base, src) ELSE BlankCell(t),
                      !.ub = @ \/ (src >= x /\ ~InBuffer(t, base + src))],
            base, x, count, i - 1)
  ELSE insert_shift(t, r, base, x, count, i - 1)

\* for (i = first; i <= last; ++i) if (!video[i].protected) blank video[i]
RECURSIVE blank_unprotected(_, _, _, _, _)
blank_unprotected(t, r, base, i, last) ==
  IF i > last \/ r.cut THEN r
  ELSE IF ~InBuffer(t, base + i) THEN [r EXCEPT !.ub = TRUE, !.cut = TRUE]
  ELSE blank_unprotected(t,
         IF r.buf[base + i].protected = 0
         THEN [r EXCEPT !.buf[base + i] = BlankCell(t)] ELSE r,
         base, i + 1, last)

\* ozterm_create allocates the main cell buffer, then the alternate one: a
\* loop that runs off the low end of the alternate buffer, or off the high end
\* of the main one, may run through the other buffer, where it overwrites
\* what it takes for unprotected cells.
spill_into_other(w, cut, from_alt) ==
  IF cut /\ w.mem.spill /\ w.t.alternative_active = from_alt
  THEN LET other == IF from_alt = 1 THEN w.t.screen_main ELSE w.t.screen_alternative
           buf == [i \in DOMAIN other.buffer |->
                     IF other.buffer[i].protected = 0 THEN w.mem.cell
                     ELSE other.buffer[i]]
       IN IF from_alt = 1 THEN [w EXCEPT !.t.screen_main.buffer = buf]
          ELSE [w EXCEPT !.t.screen_alternative.buffer = buf]
  ELSE w

ozterm_line_insert_characters(w, c, count16) ==
  LET t == w.t
      s == screen_active(t)
      base == s.cursor_row * t.column_count
      x == s.cursor_column
      cnt == ToInt16(count16)
      count == IF x + cnt >= t.column_count THEN t.column_count - x ELSE cnt
      shifted == insert_shift(t, [buf |-> s.buffer, ub |-> FALSE, cut |-> FALSE, mem |-> w.mem],
                              base, x, count, t.column_count - 1)
      filled == blank_unprotected(t, shifted, base, x, x + count - 1)
  IN IF x >= t.column_count THEN w
     ELSE spill_into_other([with_buffer(w, filled.buf) EXCEPT !.ub = @ \/ filled.ub],
                           filled.cut, 1)

\* while (src < column_count && video[src].protected) src++;
RECURSIVE delete_skip_source(_, _, _, _)
delete_skip_source(t, r, base, src) ==
  IF src < t.column_count /\ video_at(t, r, base, src).protected # 0
  THEN delete_skip_source(t, r, base, src + 1)
  ELSE src

\* for (i = x; i < column_count - count; ++i)
RECURSIVE delete_shift(_, _, _, _, _)
delete_shift(t, r, base, count, i) ==
  IF i >= t.column_count - count \/ r.cut THEN r
  ELSE IF ~InBuffer(t, base + i) THEN [r EXCEPT !.ub = TRUE, !.cut = TRUE]
  ELSE IF r.buf[base + i].protected = 0
  THEN LET src == delete_skip_source(t, r, base, i + count)
       IN delete_shift(t,
            [r EXCEPT !.buf[base + i] =
                        IF src < t.column_count THEN video_at(t, r, base, src)
                        ELSE BlankCell(t),
                      !.ub = @ \/ (src < t.column_count /\ ~InBuffer(t, base + src))],
            base, count, i + 1)
  ELSE delete_shift(t, r, base, count, i + 1)

ozterm_line_delete_characters(w, count16) ==
  LET t == w.t
      s == screen_active(t)
      base == s.cursor_row * t.column_count
      x == s.cursor_column
      cnt == ToInt16(count16)
      count == IF x + cnt >= t.column_count THEN t.column_count - x ELSE cnt
      shifted == delete_shift(t, [buf |-> s.buffer, ub |-> FALSE, cut |-> FALSE, mem |-> w.mem],
                              base, count, x)
      cleared == blank_unprotected(t, shifted, base, t.column_count - count,
                                   t.column_count - 1)
  IN IF x >= t.column_count THEN w
     ELSE spill_into_other([with_buffer(w, cleared.buf) EXCEPT !.ub = @ \/ cleared.ub],
                           cleared.cut, 0)

(***************************************************************************)
(* ozterm_put_character_and_cursor.                                        *)
(***************************************************************************)
\* The printable branch with a test that spares a protected cell.
put_printable_keep_protected(w, c) ==
  LET t0 == w.t
      s0 == screen_active(t0)
      wrap == s0.cursor_column >= t0.column_count
      w1 == IF ~wrap THEN w
            ELSE LET wc == [w EXCEPT !.t = with_active(t0, [s0 EXCEPT !.cursor_column = 0])]
                 IN IF s0.cursor_row = t0.scroll_bottom
                    THEN ozterm_scroll_up(wc, 1)
                    ELSE [wc EXCEPT !.t = with_active(wc.t,
                            [screen_active(wc.t) EXCEPT !.cursor_row = @ + 1])]
      t1 == w1.t
      s1 == screen_active(t1)
      idx == s1.cursor_row * t1.column_count + s1.cursor_column
      cell == [character |-> c, color |-> t1.color, protected |-> s1.attr_protected]
      w2 == IF InBuffer(t1, idx)
            THEN IF s1.buffer[idx].protected # 0 THEN w1
                 ELSE with_buffer(w1, [s1.buffer EXCEPT ![idx] = cell])
            ELSE [w1 EXCEPT !.ub = TRUE]
      w3 == [w2 EXCEPT !.ev = Append(@, <<"set_character", s1.cursor_row, s1.cursor_column, c>>)]
  IN ozterm_move_cursor(w3, s1.cursor_row, s1.cursor_column + 1)

\* The branch for a graphic or space byte: auto-wrap test, cell write,
\* set_character callback, cursor advance.
put_printable(w, c) ==
  LET t0 == w.t
      s0 == screen_active(t0)
      wrap == s0.cursor_column >= t0.column_count
      w1 == IF ~wrap THEN w
            ELSE LET wc == [w EXCEPT !.t = with_active(t0, [s0 EXCEPT !.cursor_column = 0])]
                 IN IF s0.cursor_row = t0.scroll_bottom
                    THEN ozterm_scroll_up(wc, 1)
                    ELSE [wc EXCEPT !.t = with_active(wc.t,
                            [screen_active(wc.t) EXCEPT !.cursor_row = @ + 1])]
      t1 == w1.t
      s1 == screen_active(t1)
      idx == s1.cursor_row * t1.column_count + s1.cursor_column
      cell == [character |-> c, color |-> t1.color, protected |-> s1.attr_protected]
      w2 == IF InBuffer(t1, idx)
            THEN with_buffer(w1, [s1.buffer EXCEPT ![idx] = cell])
            ELSE [w1 EXCEPT !.ub = TRUE]
      w3 == [w2 EXCEPT !.ev = Append(@, <<"set_character", s1.cursor_row, s1.cursor_column, c>>)]
  IN ozterm_move_cursor(w3, s1.cursor_row, s1.cursor_column + 1)

\* for (i = 0; i < spaces; ++i) ozterm_put_character_and_cursor(terminal, ' ');
\* The test on w.rd, never true, has each space written before the next call
\* is looked at.
RECURSIVE put_spaces(_, _)
put_spaces(w, spaces) ==
  IF spaces <= 0 \/ w.rd < 0 THEN w ELSE put_spaces(put_printable(w, SP), spaces - 1)

\* ozterm_put_character_and_cursor with a backspace that blanks the cell it
\* moves onto.
ozterm_put_character_and_cursor_rubout(w, c) ==
  LET t == w.t
      s == screen_active(t)
  IN IF c = LF
     THEN IF s.cursor_row = t.scroll_bottom
          THEN ozterm_scroll_up(w, 1)
          ELSE ozterm_move_cursor(w, s.cursor_row + 1, s.cursor_column)
     ELSE IF c = CR THEN ozterm_move_cursor(w, s.cursor_row, 0)
     ELSE IF c = BS
     THEN IF s.cursor_column > 0
          THEN with_buffer(ozterm_move_cursor_diff(w, 0, -1),
                 [s.buffer EXCEPT ![s.cursor_row * t.column_count + s.cursor_column - 1]
                    = BlankCell(t)])
          ELSE w
     ELSE IF c = TAB
     THEN put_spaces(w, TAB_WIDTH - (s.cursor_column % TAB_WIDTH))
     ELSE IF isgraph(c) \/ isspace(c) THEN put_printable(w, c)
     ELSE w

ozterm_put_character_and_cursor(w, c) ==
  LET t == w.t
      s == screen_active(t)
  IN IF c = LF
     THEN IF s.cursor_row = t.scroll_bottom
          THEN ozterm_scroll_up(w, 1)
          ELSE ozterm_move_cursor(w, s.cursor_row + 1, s.cursor_column)
     ELSE IF c = CR THEN ozterm_move_cursor(w, s.cursor_row, 0)
     ELSE IF c = BS
     THEN IF s.cursor_column > 0 THEN ozterm_move_cursor_diff(w, 0, -1) ELSE w
     ELSE IF c = TAB
     THEN put_spaces(w, TAB_WIDTH - (s.cursor_column % TAB_WIDTH))
     ELSE IF isgraph(c) \/ isspace(c) THEN put_printable(w, c)
     ELSE w

(***************************************************************************)
(* Screen swap.                                                            *)
(***************************************************************************)
ozterm_switch_to_alt_screen(w) ==
  refresh(ozterm_clear([w EXCEPT !.t.alternative_active = 1]))

ozterm_restore_main_screen(w) ==
  refresh([w EXCEPT !.t.alternative_active = 0])

(***************************************************************************)
(* CSI dispatch: the switch on final_byte of ozterm_put_character.         *)
(***************************************************************************)
\* The erase loops of CSI J and CSI K: every unprotected cell (y, x) with
\* y in [y0, y1] and x in [xs(y), xe(y)) gets character ' ' and the default color.
EraseCells(t, buf, y0, y1, xs(_), xe(_)) ==
  [idx \in DOMAIN buf |->
     LET y == idx \div t.column_count
         x == idx % t.column_count
     IN IF y >= y0 /\ y <= y1 /\ x >= xs(y) /\ x < xe(y) /\ buf[idx].protected = 0
        THEN [buf[idx] EXCEPT !.character = SP, !.color = t.color]
        ELSE buf[idx]]

\* case 'J' that erases the whole screen and then drops the protection of
\* the cells it skipped.
csi_J_unprotect(w, param) ==
  LET t == w.t
      buf == screen_active(t).buffer
      erased == EraseCells(t, buf, 0, t.row_count - 1,
                           LAMBDA y : 0, LAMBDA y : t.column_count)
  IN with_buffer(w, [idx \in DOMAIN buf |-> [erased[idx] EXCEPT !.protected = 0]])

csi_J(w, param) ==
  LET t == w.t
      s == screen_active(t)
      mode == IF param # <<>> THEN atoi(param) ELSE 0
      cy == s.cursor_row
      cx == s.cursor_column
      buf == s.buffer
  IN with_buffer(w,
       CASE mode = 0 ->
              EraseCells(t, buf, cy, t.row_count - 1,
                         LAMBDA y : IF y = cy THEN cx ELSE 0,
                         LAMBDA y : t.column_count)
         [] mode = 1 ->
              EraseCells(t, buf, 0, cy,
                         LAMBDA y : 0,
                         LAMBDA y : IF y = cy THEN cx + 1 ELSE t.column_count)
         [] OTHER ->
              EraseCells(t, buf, 0, t.row_count - 1,
                         LAMBDA y : 0, LAMBDA y : t.column_count))

\* case 'K' whose mode 1 stops before the cursor's column.
csi_K_before_cursor(w, param) ==
  LET t == w.t
      s == screen_active(t)
      mode == IF param # <<>> THEN atoi(param) ELSE 0
      y0 == s.cursor_row
      x_start == IF mode = 0 THEN s.cursor_column ELSE 0
      x_end == IF mode = 1 THEN s.cursor_column ELSE t.column_count
  IN with_buffer(w,
       EraseCells(t, s.buffer, y0, y0, LAMBDA y : x_start, LAMBDA y : x_end))

csi_K(w, param) ==
  LET t == w.t
      s == screen_active(t)
      mode == IF param # <<>> THEN atoi(param) ELSE 0
      y0 == s.cursor_row
      x_start == IF mode = 0 THEN s.cursor_column ELSE 0
      x_end == IF mode = 1 THEN s.cursor_column + 1 ELSE t.column_count
  IN with_buffer(w,
       EraseCells(t, s.buffer, y0, y0, LAMBDA y : x_start, LAMBDA y : x_end))

\* case 'm' that handles the first value of the list only.
csi_m_first_value(w, p) ==
  IF p = <<>> THEN w
  ELSE LET val == DigitsValue(SubSeq(p, 1, DigitRun(p)))
       IN IF val = 0 THEN ozterm_reset_attributes(w)
          ELSE IF val = 8
          THEN [w EXCEPT !.t = with_active(w.t,
                  [screen_active(w.t) EXCEPT !.attr_protected = 1])]
          ELSE w

\* while (p && *p) { val = strtol(p, &p, 10); switch (val) ...; if (*p == ';') p++; }
RECURSIVE csi_m(_, _)
csi_m(w, p) ==
  IF p = <<>> THEN w
  ELSE LET n == DigitRun(p)
           val == DigitsValue(SubSeq(p, 1, n))
           rest == SubSeq(p, n + 1, Len(p))
           w1 == IF val = 0 THEN ozterm_reset_attributes(w)
                 ELSE IF val = 8
                 THEN [w EXCEPT !.t = with_active(w.t,
                         [screen_active(w.t) EXCEPT !.attr_protected = 1])]
                 ELSE w
       IN csi_m(w1, IF rest # <<>> /\ Head(rest) = CH_semi THEN Tail(rest) ELSE rest)

\* case 'r' that leaves the region alone when a parameter is out of range.
csi_r_keep_region(w, p1, p2) ==
  LET t == w.t
  IN IF p1 >= 1 /\ p2 >= 1 /\ p1 <= t.row_count /\ p2 <= t.row_count
     THEN [w EXCEPT !.t.scroll_top = p1 - 1, !.t.scroll_bottom = p2 - 1]
     ELSE w

csi_r(w, p1, p2) ==
  LET t == w.t
  IN IF p1 >= 1 /\ p2 >= 1 /\ p1 <= t.row_count /\ p2 <= t.row_count
     THEN [w EXCEPT !.t.scroll_top = p1 - 1, !.t.scroll_bottom = p2 - 1]
     ELSE [w EXCEPT !.t.scroll_top = 0, !.t.scroll_bottom = t.row_count - 1]

\* The strings the dispatch compares the parameter buffer with.
STR_6 == <<CH_6>>
STR_0 == <<CH_0>>
STR_7 == <<CH_7>>
STR_11 == <<CH_1, CH_1>>
STR_12 == <<CH_1, CH_2>>
STR_25 == <<CH_2, CH_5>>
STR_1049 == <<CH_1, CH_0, CH_4, CH_9>>
STR_2004 == <<CH_2, CH_0, CH_0, CH_4>>
STR_22semi == <<CH_2, CH_2, CH_semi>>
STR_23semi == <<CH_2, CH_3, CH_semi>>

REPLY_DECID == <<ESC, CH_lbracket, CH_quest, CH_6, CH_c>>
REPLY_DA_SECONDARY == <<ESC, CH_lbracket, CH_gt, CH_0, CH_semi, CH_0, CH_semi, CH_0, CH_c>>
REPLY_DA_PRIMARY == <<ESC, CH_lbracket, CH_quest, CH_1, CH_semi, CH_0, CH_c>>
REPLY_WINDOW_VISIBLE == <<ESC, CH_lbracket, CH_1, CH_t>>

\* The cursor position report with the 0-based row and column.
REPLY_DSR_zero_based(s) ==
  <<ESC, CH_lbracket>> \o FormatDecimal(s.cursor_row) \o <<CH_semi>>
     \o FormatDecimal(s.cursor_column) \o <<CH_R>>

\* snprintf(reply, sizeof(reply), "\033[%d;%dR", cursor_row + 1, cursor_column + 1)
REPLY_DSR(s) ==
  <<ESC, CH_lbracket>> \o FormatDecimal(s.cursor_row + 1) \o <<CH_semi>>
     \o FormatDecimal(s.cursor_column + 1) \o <<CH_R>>

\* strncmp(param_buf, prefix, 3) == 0 for a 3-character prefix.
HasPrefix(str, prefix) ==
  Len(str) >= Len(prefix) /\ SubSeq(str, 1, Len(prefix)) = prefix

\* The diagnostic of an unhandled sequence followed by the reply ESC [ 0 n.
unhandled_status_reply(w) ==
  write_to_master([w EXCEPT !.ev = Append(@, <<"printf_unhandled">>)],
                  <<ESC, CH_lbracket, CH_0, CH_n>>)

\* printf("Unhandled CSI sequence: ...")
unhandled(w) == [w EXCEPT !.ev = Append(@, <<"printf_unhandled">>)]

\* A 1-based parameter of CSI H, f, d, G taken as it is.
csi_position_as_given(p) == p

\* p > 0 ? p - 1 : 0
csi_position(p) == IF p > 0 THEN p - 1 ELSE 0

\* From "final_byte = c" to the end of case STATE_CSI.
csi_dispatch(w, c) ==
  LET t == w.t
      s == screen_active(t)
      param == w.ps.param_buf
      priv == w.ps.is_private # 0
      semi == strchr_semi(param)
      p1 == IF semi # 0 THEN atoi(SubSeq(param, 1, semi - 1))
            ELSE IF param # <<>> THEN atoi(param) ELSE 1
      p2 == IF semi # 0 THEN atoi(SubSeq(param, semi + 1, Len(param))) ELSE 1
      count == IF p1 > 0 THEN p1 ELSE 1
      private_mode == priv /\ param \in {STR_1049, STR_2004, STR_25, STR_12, STR_7}
      w1 ==
        CASE c = CH_A -> ozterm_move_cursor_diff(w, -p1, 0)
          [] c = CH_B -> ozterm_move_cursor_diff(w, p1, 0)
          [] c = CH_C -> ozterm_move_cursor_diff(w, 0, p1)
          [] c = CH_D -> ozterm_move_cursor_diff(w, 0, -p1)
          [] c = CH_H \/ c = CH_f ->
               ozterm_move_cursor(w, csi_position(p1), csi_position(p2))
          [] c = CH_d -> ozterm_move_cursor(w, csi_position(p1), s.cursor_column)
          [] c = CH_G -> ozterm_move_cursor(w, s.cursor_row, csi_position(p1))
          [] c = CH_n ->
               IF param = STR_6 THEN write_to_master(w, REPLY_DSR(s)) ELSE unhandled(w)
          [] c = CH_J -> csi_J(w, param)
          [] c = CH_K -> csi_K(w, param)
          [] c = CH_m -> csi_m(w, param)
          [] c = CH_h ->
               IF priv /\ param = STR_1049 THEN ozterm_switch_to_alt_screen(w)
               ELSE IF private_mode THEN w ELSE unhandled(w)
          [] c = CH_l ->
               IF priv /\ param = STR_1049 THEN ozterm_restore_main_screen(w)
               ELSE IF private_mode THEN w ELSE unhandled(w)
          [] c = CH_t ->
               IF param = STR_11 THEN write_to_master(w, REPLY_WINDOW_VISIBLE)
               ELSE IF HasPrefix(param, STR_22semi) \/ HasPrefix(param, STR_23semi) THEN w
               ELSE unhandled(w)
          [] c = CH_c ->
               IF priv THEN write_to_master(w, REPLY_DA_SECONDARY)
               ELSE IF param = STR_0 THEN write_to_master(w, REPLY_DA_PRIMARY)
               ELSE unhandled(w)
          [] c = CH_at -> ozterm_line_insert_characters(w, SP, count)
          [] c = CH_P -> ozterm_line_delete_characters(w, count)
          [] c = CH_r -> csi_r(w, p1, p2)
          [] c = CH_M -> ozterm_delete_lines(w, s.cursor_row, count)
          [] c = CH_L -> ozterm_insert_lines(w, s.cursor_row, count)
          [] c = CH_S -> ozterm_scroll_up_region(w, count)
          [] c = CH_T -> ozterm_scroll_down_region(w, count)
          [] OTHER -> unhandled(w)
  IN [w1 EXCEPT !.ps.final_byte = c,
                !.ps.parse_state = "NORMAL",
                !.ps.param_len = 0,
                !.ps.seq_len = 0]

(***************************************************************************)
(* ozterm_put_character: the parser.  seq_buf and osc_buf are written and  *)
(* never read; seq_len, osc_index and the OSC payload are kept.            *)
(***************************************************************************)
state_NORMAL(w, c) ==
  IF c = ESC THEN [w EXCEPT !.ps.parse_state = "ESC"]
  ELSE IF (c >= 32 /\ c <= 126) \/ c = LF \/ c = CR \/ c = BS \/ c = TAB
  THEN ozterm_put_character_and_cursor(w, c)
  ELSE w

\* ESC # 8: every cell gets 'E' and the default color; protected is left alone.
decaln(w) ==
  LET t == w.t
      buf == screen_active(t).buffer
  IN ozterm_move_cursor(
       with_buffer(w, [i \in DOMAIN buf |->
                         [buf[i] EXCEPT !.character = CH_E, !.color = t.color]]),
       0, 0)

\* ESC 7 with the row left out of what is stored.
esc_save_cursor_column_only(w) ==
  [w EXCEPT !.t.saved_cursor_column = screen_active(w.t).cursor_column]

\* ESC 7: the active cursor goes to the one saved pair of the terminal.
esc_save_cursor(w) ==
  [w EXCEPT !.t.saved_cursor_row = screen_active(w.t).cursor_row,
            !.t.saved_cursor_column = screen_active(w.t).cursor_column]

\* ESC 8: the active cursor is moved to the saved pair.
esc_restore_cursor(w) ==
  ozterm_move_cursor(w, w.t.saved_cursor_row, w.t.saved_cursor_column)

\* case STATE_ESC with ESC D scrolling the region when the cursor is on
\* scroll_bottom, as a line feed does.
state_ESC_index_scrolls(w, c) ==
  LET s == screen_active(w.t)
      normal(x) == [x EXCEPT !.ps.parse_state = "NORMAL"]
  IN CASE c = CH_lbracket ->
            [w EXCEPT !.ps.parse_state = "CSI", !.ps.param_len = 0, !.ps.seq_len = 0,
                      !.ps.is_private = 0, !.ps.param_buf = <<>>]
       [] c = CH_rbracket ->
            [w EXCEPT !.ps.parse_state = "OSC", !.ps.osc_index = 0, !.ps.osc_buf = <<>>]
       [] c = CH_lparen -> [w EXCEPT !.ps.parse_state = "G0"]
       [] c = CH_rparen -> [w EXCEPT !.ps.parse_state = "G1"]
       [] c = CH_hash -> [w EXCEPT !.ps.parse_state = "HASH"]
       [] c = CH_7 -> normal(esc_save_cursor(w))
       [] c = CH_8 -> normal(esc_restore_cursor(w))
       [] c = CH_c -> normal(ozterm_move_cursor(ozterm_clear(w), 0, 0))
       [] c = CH_D -> normal(IF s.cursor_row = w.t.scroll_bottom
                           THEN ozterm_scroll_up_region(w, 1)
                           ELSE ozterm_move_cursor_diff(w, 1, 0))
       [] c = CH_E -> normal(ozterm_move_cursor(w, s.cursor_row + 1, 0))
       [] c = CH_M -> normal(ozterm_scroll_down_region(w, 1))
       [] c = CH_Z -> normal(write_to_master(w, REPLY_DECID))
       [] c = CH_backslash -> normal(w)
       [] OTHER -> normal(w)

state_ESC(w, c) ==
  LET s == screen_active(w.t)
      normal(x) == [x EXCEPT !.ps.parse_state = "NORMAL"]
  IN CASE c = CH_lbracket ->
            [w EXCEPT !.ps.parse_state = "CSI", !.ps.param_len = 0, !.ps.seq_len = 0,
                      !.ps.is_private = 0, !.ps.param_buf = <<>>]
       [] c = CH_rbracket ->
            [w EXCEPT !.ps.parse_state = "OSC", !.ps.osc_index = 0, !.ps.osc_buf = <<>>]
       [] c = CH_lparen -> [w EXCEPT !.ps.parse_state = "G0"]
       [] c = CH_rparen -> [w EXCEPT !.ps.parse_state = "G1"]
       [] c = CH_hash -> [w EXCEPT !.ps.parse_state = "HASH"]
       [] c = CH_7 -> normal(esc_save_cursor(w))
       [] c = CH_8 -> normal(esc_restore_cursor(w))
       [] c = CH_c -> normal(ozterm_move_cursor(ozterm_clear(w), 0, 0))
       [] c = CH_D -> normal(ozterm_move_cursor_diff(w, 1, 0))
       [] c = CH_E -> normal(ozterm_move_cursor(w, s.cursor_row + 1, 0))
       [] c = CH_M -> normal(ozterm_scroll_down_region(w, 1))
       [] c = CH_Z -> normal(write_to_master(w, REPLY_DECID))
       [] c = CH_backslash -> normal(w)
       [] OTHER -> normal(w)

state_OSC(w, c) ==
  IF c = BEL THEN [w EXCEPT !.ps.parse_state = "NORMAL"]
  ELSE IF c = ESC THEN [w EXCEPT !.ps.parse_state = "ESC"]
  ELSE IF w.ps.osc_index < OSC_BUF_SIZE - 1
  THEN [w EXCEPT !.ps.osc_buf = Append(SubSeq(@, 1, w.ps.osc_index), c),
                 !.ps.osc_index = @ + 1]
  ELSE w

state_HASH(w, c) ==
  [(IF c = CH_8 THEN decaln(w) ELSE w) EXCEPT !.ps.parse_state = "NORMAL"]

\* case STATE_CSI without the test of param_len against the buffer size.
state_CSI_uncapped(w, c) ==
  LET w0 == IF w.ps.seq_len < SEQ_BUF_SIZE - 1
            THEN [w EXCEPT !.ps.seq_len = @ + 1] ELSE w
  IN IF c = CH_quest \/ c = CH_gt THEN [w0 EXCEPT !.ps.is_private = 1]
     ELSE IF IsDigit(c) \/ c = CH_semi
     THEN [w0 EXCEPT !.ps.param_buf = Append(SubSeq(@, 1, w0.ps.param_len), c),
                     !.ps.param_len = @ + 1]
     ELSE IF c < CH_at \/ c > CH_tilde
     THEN [w0 EXCEPT !.ps.parse_state = "NORMAL", !.ps.param_len = 0, !.ps.seq_len = 0]
     ELSE csi_dispatch(w0, c)

state_CSI(w, c) ==
  LET w0 == IF w.ps.seq_len < SEQ_BUF_SIZE - 1
            THEN [w EXCEPT !.ps.seq_len = @ + 1] ELSE w
  IN IF c = CH_quest \/ c = CH_gt THEN [w0 EXCEPT !.ps.is_private = 1]
     ELSE IF IsDigit(c) \/ c = CH_semi
     THEN IF w0.ps.param_len < PARAM_BUF_SIZE - 1
          THEN [w0 EXCEPT !.ps.param_buf = Append(SubSeq(@, 1, w0.ps.param_len), c),
                          !.ps.param_len = @ + 1]
          ELSE w0
     ELSE IF c < CH_at \/ c > CH_tilde
     THEN [w0 EXCEPT !.ps.parse_state = "NORMAL", !.ps.param_len = 0, !.ps.seq_len = 0]
     ELSE csi_dispatch(w0, c)

\* The switch on parse_state, without the trailing scroll_offset reset.
put_character_switch(w, c) ==
  LET st == w.ps.parse_state
  IN CASE st = "NORMAL" -> state_NORMAL(w, c)
       [] st = "ESC" -> state_ESC(w, c)
       [] st = "OSC" -> state_OSC(w, c)
       [] st = "G0" \/ st = "G1" -> [w EXCEPT !.ps.parse_state = "NORMAL"]
       [] st = "HASH" -> state_HASH(w, c)
       [] st = "CSI" -> state_CSI(w, c)

\* ozterm_put_character without the trailing scroll_offset reset.
ozterm_put_character_no_snap(w, c) == put_character_switch(w, c)

ozterm_put_character(w, c) ==
  LET w1 == put_character_switch(w, c)
  IN IF w1.t.scroll_offset > 0 THEN [w1 EXCEPT !.t.scroll_offset = 0] ELSE w1

\* while (*c && i < size): *c is read first, so the loop reads text[i] also
\* when i = size; whatever that byte holds the loop then ends, because
\* i < size fails.  w.rd counts the bytes of text the call has read: at most
\* i when the test is made for the i-th time (stated first, so that the world
\* reached so far is evaluated before the loop goes on).
RECURSIVE put_text_loop(_, _, _, _)
put_text_loop(w, text, size, i) ==
  LET w0 == [w EXCEPT !.rd = i + 1]
  IN IF w.rd <= i /\ i < Len(text) /\ text[i + 1] # NUL /\ i < size
     THEN put_text_loop(ozterm_put_character(w0, text[i + 1]), text, size, i + 1)
     ELSE w0

\* ozterm_put_text as it would be if the parse state were an automatic local,
\* initialised at each call.
ozterm_put_text_local_state(w, text, size) ==
  put_text_loop([w EXCEPT !.ps.parse_state = "NORMAL", !.rd = 0], text, size, 0)

\* No byte of text has been read when the loop starts.
ozterm_put_text(w, text, size) == put_text_loop([w EXCEPT !.rd = 0], text, size, 0)

ozterm_have_read_from_master(w, data, size) == ozterm_put_text(w, data, size)

\* The % of C on ints: the remainder has the sign of the dividend.
CRem(a, b) == IF a >= 0 THEN a % b ELSE 0 - ((0 - a) % b)

\* ozterm_get_row with a ring index that lacks the + SCROLLBACK_LINES.
ozterm_get_row_no_wrap(t, row) ==
  IF t.scroll_offset > 0
  THEN LET scroll_index == t.scrollback_count - t.scroll_offset + row
       IN IF scroll_index < t.scrollback_count
          THEN [from |-> "scrollback",
                index |-> CRem(t.scrollback_head - t.scrollback_count + scroll_index,
                               ScrollbackLines)]
          ELSE [from |-> "screen", index |-> row - t.scroll_offset]
  ELSE [from |-> "screen", index |-> row]

\* ozterm_get_row: where the returned pointer points, a row of the ring
\* (index = ring_index) or a row of the active buffer (index = the row).
ozterm_get_row(t, row) ==
  IF t.scroll_offset > 0
  THEN LET scroll_index == t.scrollback_count - t.scroll_offset + row
       IN IF scroll_index < t.scrollback_count
          THEN [from |-> "scrollback",
                index |-> CRem(t.scrollback_head - t.scrollback_count + scroll_index
                                 + ScrollbackLines, ScrollbackLines)]
          ELSE [from |-> "screen", index |-> row - t.scroll_offset]
  ELSE [from |-> "screen", index |-> row]

ozterm_scroll(w, scroll_offset) ==
  LET o0 == ToInt16(scroll_offset)
      o1 == IF o0 > w.t.scrollback_count THEN w.t.scrollback_count ELSE o0
      o2 == IF o1 < 0 THEN 0 ELSE o1
  IN refresh([w EXCEPT !.t.scroll_offset = o2])

(***************************************************************************)
(* ozterm_send_key.  A key is [name, byte]: a named key of the enumeration *)
(* (byte = 0), or name = "BYTE" with the literal byte.  A modifier is the  *)
(* set of its bits.                                                        *)
(***************************************************************************)
\* write_csi_sequence without the short form for code 1.
write_csi_sequence_code_always(code, final, mod_value) ==
  IF mod_value <= 1
  THEN <<ESC, CH_lbracket>> \o FormatDecimal(code) \o <<final>>
  ELSE <<ESC, CH_lbracket>> \o FormatDecimal(code) \o <<CH_semi>>
          \o FormatDecimal(mod_value) \o <<final>>

write_csi_sequence(code, final, mod_value) ==
  IF mod_value <= 1
  THEN IF code = 1 THEN <<ESC, CH_lbracket, final>>
       ELSE <<ESC, CH_lbracket>> \o FormatDecimal(code) \o <<final>>
  ELSE <<ESC, CH_lbracket>> \o FormatDecimal(code) \o <<CH_semi>>
          \o FormatDecimal(mod_value) \o <<final>>

\* The code and final byte of each named key sent as a CSI sequence.
KeyCsi ==
  [F5 |-> <<15, CH_tilde>>, F6 |-> <<17, CH_tilde>>, F7 |-> <<18, CH_tilde>>,
   F8 |-> <<19, CH_tilde>>, F9 |-> <<20, CH_tilde>>, F10 |-> <<21, CH_tilde>>,
   F11 |-> <<23, CH_tilde>>, F12 |-> <<24, CH_tilde>>,
   HOME |-> <<1, CH_H>>, END |-> <<1, CH_F>>, UP |-> <<1, CH_A>>, DOWN |-> <<1, CH_B>>,
   LEFT |-> <<1, CH_D>>, RIGHT |-> <<1, CH_C>>, PAGEUP |-> <<5, CH_tilde>>,
   PAGEDOWN |-> <<6, CH_tilde>>, INSERT |-> <<2, CH_tilde>>, DELETE |-> <<3, CH_tilde>>]

\* key - OZTERM_KEY_F1 for the four keys of the first case group: the
\* enumerators OZTERM_KEY_F1..OZTERM_KEY_F4 are consecutive.
KeyFOffset == [F1 |-> 0, F2 |-> 1, F3 |-> 2, F4 |-> 3]

\* 'P' + (key - OZTERM_KEY_F1)
KeyFBase == [k \in DOMAIN KeyFOffset |-> CH_P + KeyFOffset[k]]

KeyControl == [RETURN |-> <<CR>>, BACKSPACE |-> <<DEL>>, ESCAPE |-> <<ESC>>, TAB |-> <<TAB>>]

toupper(c) == IF c >= 97 /\ c <= 122 THEN c - 32 ELSE c

\* ozterm_send_key with C(key) in place of C(upper).
send_key_sequence_plain_byte(modifier, key) ==
  LET mod_value == 1 + (IF modifier \cap {"LEFTSHIFT", "RIGHTSHIFT"} # {} THEN 1 ELSE 0)
                     + (IF "ALT" \in modifier THEN 2 ELSE 0)
                     + (IF "CTRL" \in modifier THEN 4 ELSE 0)
  IN IF key.name \in DOMAIN KeyFBase
     THEN IF mod_value = 1 THEN <<ESC, CH_O, KeyFBase[key.name]>>
          ELSE write_csi_sequence(1, KeyFBase[key.name], mod_value)
     ELSE IF key.name \in DOMAIN KeyCsi
     THEN write_csi_sequence(KeyCsi[key.name][1], KeyCsi[key.name][2], mod_value)
     ELSE IF key.name \in DOMAIN KeyControl THEN KeyControl[key.name]
     ELSE IF modifier = {"CTRL"} /\ isgraph(key.byte)
     THEN <<(key.byte - CH_at) % 256>>
     ELSE <<key.byte>>

send_key_sequence(modifier, key) ==
  LET mod_value == 1 + (IF modifier \cap {"LEFTSHIFT", "RIGHTSHIFT"} # {} THEN 1 ELSE 0)
                     + (IF "ALT" \in modifier THEN 2 ELSE 0)
                     + (IF "CTRL" \in modifier THEN 4 ELSE 0)
  IN IF key.name \in DOMAIN KeyFBase
     THEN IF mod_value = 1 THEN <<ESC, CH_O, KeyFBase[key.name]>>
          ELSE write_csi_sequence(1, KeyFBase[key.name], mod_value)
     ELSE IF key.name \in DOMAIN KeyCsi
     THEN write_csi_sequence(KeyCsi[key.name][1], KeyCsi[key.name][2], mod_value)
     ELSE IF key.name \in DOMAIN KeyControl THEN KeyControl[key.name]
     ELSE IF modifier = {"CTRL"} /\ isgraph(key.byte)
     THEN <<(toupper(key.byte) - CH_at) % 256>>
     ELSE <<key.byte>>

\* The final call goes to the callback directly, with the same size > 0 test
\* as write_to_master.
ozterm_send_key(w, modifier, key) ==
  LET seq == send_key_sequence(modifier, key)
  IN IF Len(seq) > 0 THEN [w EXCEPT !.out = Append(@, seq)] ELSE w

(***************************************************************************)
(* The host: one Ozterm (id 1), or two (ids 1 and 2) in the same process.  *)
(***************************************************************************)
TermIds == {1, 2}

NoKey == [name |-> "NONE", byte |-> 0]

Snapshot == [terminals |-> terminals, parser |-> parser, written |-> written]

\* The world a call on instance id starts from.
World(id) ==
  [t |-> terminals[id], ps |-> parser, out |-> written[id],
   ev |-> <<>>, ub |-> FALSE, rd |-> 0, mem |-> NoOutside]

\* The world a call on instance id started from, one call ago.
PrevWorld(id) ==
  [t |-> prev.terminals[id], ps |-> prev.parser, out |-> prev.written[id],
   ev |-> <<>>, ub |-> FALSE, rd |-> 0, mem |-> lastcall.outside]

Commit(id, w, call) ==
  /\ steps < MaxSteps
  /\ terminals' = [terminals EXCEPT ![id] = w.t]
  /\ parser' = w.ps
  /\ written' = [written EXCEPT ![id] = w.out]
  /\ events' = w.ev
  /\ ub' = w.ub
  /\ nread' = w.rd
  /\ prev' = Snapshot
  /\ lastcall' = call
  /\ steps' = steps + 1

Init ==
  /\ terminals = [id \in TermIds |-> ozterm_create(Rows, Cols)]
  /\ parser = ParserInit
  /\ written = [id \in TermIds |-> <<>>]
  /\ events = <<>>
  /\ ub = FALSE
  /\ nread = 0
  /\ prev = [terminals |-> [id \in TermIds |-> ozterm_create(Rows, Cols)],
             parser |-> ParserInit,
             written |-> [id \in TermIds |-> <<>>]]
  /\ lastcall = [op |-> "create", id |-> 1, data |-> <<>>, offset |-> 0,
             modifier |-> {}, key |-> NoKey, outside |-> NoOutside]
  /\ steps = 0

\* ozterm_have_read_from_master(terminal, data, size) with size = the length of
\* data.  What lies outside the active cell buffer is any of Outside; it
\* matters, and is recorded with the call, only when the call looks there.
Feed(id, data) ==
  \E w0 \in { ozterm_have_read_from_master(World(id), data, Len(data)) } :
    \E g \in (IF w0.ub THEN Outside ELSE {NoOutside}) :
      \E w \in { IF w0.ub
                 THEN ozterm_have_read_from_master([World(id) EXCEPT !.mem = g],
                                                   data, Len(data))
                 ELSE w0 } :
        Commit(id, w,
               [op |-> "feed", id |-> id, data |-> data, offset |-> 0,
                modifier |-> {}, key |-> NoKey, outside |-> g])

Scroll(id, offset) ==
  Commit(id, ozterm_scroll(World(id), offset),
         [op |-> "scroll", id |-> id, data |-> <<>>, offset |-> offset,
          modifier |-> {}, key |-> NoKey, outside |-> NoOutside])

SendKey(id, modifier, key) ==
  Commit(id, ozterm_send_key(World(id), modifier, key),
         [op |-> "send_key", id |-> id, data |-> <<>>, offset |-> 0,
          modifier |-> modifier, key |-> key, outside |-> NoOutside])

CSI(params, final) == <<ESC, CH_lbracket>> \o params \o <<final>>

ALT_ON == CSI(<<CH_quest>> \o STR_1049, CH_h)
ALT_OFF == CSI(<<CH_quest>> \o STR_1049, CH_l)
SGR_PROTECT == CSI(<<CH_8>>, CH_m)

\* Requested view offsets: negative, within the ring, beyond it.
Offsets == {-1, 1, 2 * ScrollbackLines}

Keys == { <<{"CTRL", "LEFTSHIFT"}, [name |-> "UP", byte |-> 0]>>,
          <<{}, [name |-> "BYTE", byte |-> 97]>> }

(***************************************************************************)
(* Spec: one terminal; bytes, whole sequences and pieces of sequences fed  *)
(* in any order, with view scrolling and key presses in between.           *)
(***************************************************************************)
Inputs ==
  { <<CH_A>>, <<CH_A, CH_B>>, <<LF>>, <<LF, LF, LF, LF, LF>>, <<CR>>, <<BS>>, <<TAB>>,
    <<ESC>>, <<CH_lbracket>>, <<CH_3>>, <<CH_semi, CH_1, CH_r>>, <<NUL, CH_A>>,
    CSI(<<CH_2, CH_semi, CH_3>>, CH_r),
    CSI(<<CH_3, CH_semi, CH_1>>, CH_r),
    CSI(<<>>, CH_r),
    ALT_ON, ALT_OFF, SGR_PROTECT,
    CSI(<<CH_2, CH_semi, CH_3>>, CH_H),
    CSI(<<CH_9>>, CH_B),
    CSI(<<CH_9>>, CH_C),
    <<ESC, CH_7>>, <<ESC, CH_8>>, <<ESC, CH_E>> }

Next ==
  \/ \E data \in Inputs : Feed(1, data)
  \/ \E offset \in Offsets : Scroll(1, offset)
  \/ \E k \in Keys : SendKey(1, k[1], k[2])

Spec == Init /\ [][Next]_vars

(***************************************************************************)
(* SpecProtect: one terminal; protected and unprotected cells are written, *)
(* the cursor and the scroll region are placed, and the erase, scroll and  *)
(* insert/delete sequences are fed.                                        *)
(***************************************************************************)
\* SGR 8, 'A', SGR 0: one protected 'A' at the cursor.
PROTECTED_A == SGR_PROTECT \o <<CH_A>> \o CSI(<<CH_0>>, CH_m)

\* CSI J, CSI K, CSI S, CSI T, ESC M, newline, CSI L, CSI M, CSI @, CSI P.
EraseAndShiftInputs ==
  { CSI(<<>>, CH_J), CSI(<<CH_1>>, CH_J), CSI(<<CH_2>>, CH_J),
    CSI(<<>>, CH_K), CSI(<<CH_1>>, CH_K), CSI(<<CH_2>>, CH_K),
    CSI(<<>>, CH_S), CSI(<<CH_2>>, CH_S), CSI(<<>>, CH_T), <<ESC, CH_M>>, <<LF>>,
    CSI(<<>>, CH_L), CSI(<<CH_2>>, CH_L), CSI(<<>>, CH_M),
    CSI(<<>>, CH_at), CSI(<<CH_2>>, CH_at), CSI(<<>>, CH_P), CSI(<<CH_2>>, CH_P) }

InputsProtect ==
  EraseAndShiftInputs \cup
  { PROTECTED_A, <<CH_B>>, <<CH_B, CH_B>>,
    CSI(<<>>, CH_H), CSI(<<CH_2, CH_semi, CH_2>>, CH_H), CSI(<<CH_3>>, CH_H),
    CSI(<<CH_2, CH_semi, CH_3>>, CH_r) }

NextProtect == \E data \in InputsProtect : Feed(1, data)

SpecProtect == Init /\ [][NextProtect]_vars

(***************************************************************************)
(* SpecChunk: one terminal; buffers that hold text, whole escape           *)
(* sequences, pieces of sequences and bytes the parser ignores.            *)
(***************************************************************************)
InputsChunk ==
  { <<CH_A, ESC, CH_lbracket, CH_2, CH_semi, CH_3, CH_H, CH_B>>,
    CSI(STR_6, CH_n) \o <<LF, CH_A>>,
    <<ESC, CH_rbracket, CH_0, CH_semi, CH_A, BEL, CH_B>>,
    ALT_ON \o <<CH_A>>,
    PROTECTED_A \o CSI(<<CH_2>>, CH_J),
    <<ESC, CH_hash, CH_8, ESC, CH_lparen, CH_B>>,
    <<ESC, CH_lbracket, CH_quest>>,
    <<ESC, CH_lbracket, CH_2>>,
    <<CH_semi, CH_2, CH_r, LF, LF>>,
    <<CH_A, NUL, CH_B>>,
    <<CH_A, 1, CH_B, 128, CR>>,
    <<LF, LF, LF, DEL, 255>> }

NextChunk == \E data \in InputsChunk : Feed(1, data)

SpecChunk == Init /\ [][NextChunk]_vars

(***************************************************************************)
(* SpecTwo: two terminals of one process, fed in any interleaving.         *)
(***************************************************************************)
InputsTwo ==
  { <<ESC>>, <<CH_lbracket>>, <<CH_A>>, <<CH_2>>, <<CH_J>>, <<ESC, CH_rbracket>>,
    <<BEL>>, CSI(STR_6, CH_n) }

NextTwo == \E id \in TermIds : \E data \in InputsTwo : Feed(id, data)

SpecTwo == Init /\ [][NextTwo]_vars

(***************************************************************************)
(* Claims.                                                                 *)
(***************************************************************************)
Screens(t) == {t.screen_main, t.screen_alternative}

IsFeed == lastcall.op = "feed"

\* The instance the last call was made on, now and before the call.
Cur == terminals[lastcall.id]
Old == prev.terminals[lastcall.id]

\* C1: in every reachable state the cursor of the main and of the alternate
\* screen satisfies 0 <= cursor_row < rows and 0 <= cursor_col <= cols.
C1_CursorInRange ==
  \A id \in TermIds : \A s \in Screens(terminals[id]) :
    /\ 0 <= s.cursor_row /\ s.cursor_row < terminals[id].row_count
    /\ 0 <= s.cursor_column /\ s.cursor_column <= terminals[id].column_count

\* A cursor-down by 9 from above the last row has been clamped to the last row.
C1_Witness ==
  /\ IsFeed /\ lastcall.data = CSI(<<CH_9>>, CH_B)
  /\ prev.parser.parse_state = "NORMAL"
  /\ screen_active(Old).cursor_row < Old.row_count - 1
  /\ screen_active(Cur).cursor_row = Cur.row_count - 1

\* C2: in every reachable state scroll_top <= scroll_bottom and both lie in [0, rows).
C2_ScrollRegionOrdered ==
  \A id \in TermIds :
    LET t == terminals[id]
    IN /\ t.scroll_top <= t.scroll_bottom
       /\ 0 <= t.scroll_top /\ t.scroll_top < t.row_count
       /\ 0 <= t.scroll_bottom /\ t.scroll_bottom < t.row_count

\* C3: in every reachable state scrollback_count <= SCROLLBACK_LINES,
\* 0 <= scrollback_head < SCROLLBACK_LINES and 0 <= scroll_offset <= scrollback_count.
C3_ScrollbackBounds ==
  \A id \in TermIds :
    LET t == terminals[id]
    IN /\ 0 <= t.scrollback_count /\ t.scrollback_count <= ScrollbackLines
       /\ 0 <= t.scrollback_head /\ t.scrollback_head < ScrollbackLines
       /\ 0 <= t.scroll_offset /\ t.scroll_offset <= t.scrollback_count

\* The ring is full and has wrapped, and a request beyond it was clamped to it.
C3_Witness ==
  /\ lastcall.op = "scroll" /\ lastcall.offset > Cur.scrollback_count
  /\ Cur.scrollback_count = ScrollbackLines
  /\ Cur.scrollback_head = 1
  /\ Cur.scroll_offset = ScrollbackLines

\* What a caller can observe of a world after a call: the instance, the
\* parser and the bytes written to the master.
Core(w) == [t |-> w.t, ps |-> w.ps, out |-> w.out]

CurCore == [t |-> Cur, ps |-> parser, out |-> written[lastcall.id]]

OldActive == screen_active(Old)
CurActive == screen_active(Cur)

\* C4: a cell whose protected bit is set keeps its character, color and
\* protected bit across CSI J, CSI K, CSI S, CSI T, ESC M, newline,
\* CSI L, CSI M, CSI @ and CSI P.
C4_ProtectedCellsKept ==
  (IsFeed /\ prev.parser.parse_state = "NORMAL" /\ lastcall.data \in EraseAndShiftInputs)
  => \A idx \in DOMAIN OldActive.buffer :
       OldActive.buffer[idx].protected = 1 => CurActive.buffer[idx] = OldActive.buffer[idx]

\* C5: while the alternate screen is active no fed bytes change
\* scrollback_count, scrollback_head or any scrollback row.
C5_ScrollbackFromMainOnly ==
  (IsFeed /\ Old.alternative_active = 1 /\ Cur.alternative_active = 1)
  => /\ Cur.scrollback_count = Old.scrollback_count
     /\ Cur.scrollback_head = Old.scrollback_head
     /\ Cur.scrollback = Old.scrollback

\* C6: a printable byte written at column cols-1 leaves the cursor at the
\* pending-wrap column cols, and the next printable byte goes to column 0 of
\* the following row without overwriting the cell at column cols-1.
C6_PendingWrap ==
  (IsFeed /\ prev.parser.parse_state = "NORMAL"
          /\ OldActive.cursor_column = Old.column_count - 1
          /\ OldActive.cursor_row < Old.scroll_bottom)
  => LET r == OldActive.cursor_row
         cols == Old.column_count
     IN /\ lastcall.data = <<CH_A>> =>
             /\ CurActive.cursor_column = cols
             /\ CurActive.cursor_row = r
             /\ CurActive.buffer[r * cols + cols - 1].character = CH_A
        /\ lastcall.data = <<CH_A, CH_B>> =>
             /\ CurActive.buffer[r * cols + cols - 1].character = CH_A
             /\ CurActive.buffer[(r + 1) * cols].character = CH_B
             /\ CurActive.cursor_row = r + 1
             /\ CurActive.cursor_column = 1

\* The bytes the instances other than the one just fed may be fed next.
ProbeBytes == {ESC, CH_lbracket, CH_A, CH_2, CH_J, CH_m, LF, BEL}

\* C7: bytes fed to one terminal never change how later bytes fed to another
\* terminal are parsed: after a call on terminal A, every next byte has the
\* effect on terminal B (its instance and its replies) that it would have had
\* before that call.
C7_ParserPerTerminal ==
  IsFeed =>
    \A other \in TermIds \ {lastcall.id} : \A c \in ProbeBytes :
      LET after == ozterm_put_character(World(other), c)
          before == ozterm_put_character([World(other) EXCEPT !.ps = prev.parser], c)
      IN after.t = before.t /\ after.out = before.out

NonZero(data) == \A i \in 1..Len(data) : data[i] # NUL

\* C8: chunking invariance: a buffer of non-zero bytes fed in one call leaves
\* the same instance, parser state and write_to_master output as the same
\* bytes fed in consecutive calls, wherever the buffer is cut.
C8_ChunkingInvariance ==
  (IsFeed /\ NonZero(lastcall.data)) =>
    LET data == lastcall.data
        n == Len(data)
        w0 == PrevWorld(lastcall.id)
    IN \A j \in 0..n : \A k \in j..n :
         LET c1 == SubSeq(data, 1, j)
             c2 == SubSeq(data, j + 1, k)
             c3 == SubSeq(data, k + 1, n)
             w1 == ozterm_have_read_from_master(w0, c1, Len(c1))
             w2 == ozterm_have_read_from_master(w1, c2, Len(c2))
             w3 == ozterm_have_read_from_master(w2, c3, Len(c3))
         IN Core(w3) = CurCore

\* A buffer was fed that a cut leaves in the middle of a CSI sequence, and it
\* changed the cursor.
C8_Witness ==
  /\ IsFeed /\ NonZero(lastcall.data) /\ Len(lastcall.data) >= 8
  /\ ozterm_have_read_from_master(PrevWorld(lastcall.id), SubSeq(lastcall.data, 1, 4), 4)
       .ps.parse_state = "CSI"
  /\ CurActive.cursor_row # OldActive.cursor_row

\* A byte NORMAL state ignores: not ESC, not printable, not \n \r \b \t.
Ignorable(b) ==
  b # ESC /\ ~(b >= 32 /\ b <= 126) /\ b \notin {LF, CR, BS, TAB}

RemoveAt(data, k) == SubSeq(data, 1, k - 1) \o SubSeq(data, k + 1, Len(data))

\* C9: feeding u b v, with b a byte NORMAL state ignores (0x00 included) and
\* the parser in NORMAL after u, leaves the terminal as feeding u v does.
C9_IgnoredByteSkipped ==
  IsFeed =>
    LET data == lastcall.data
        w0 == PrevWorld(lastcall.id)
    IN \A k \in 1..Len(data) :
         (/\ Ignorable(data[k])
          /\ ozterm_have_read_from_master(w0, SubSeq(data, 1, k - 1), k - 1)
               .ps.parse_state = "NORMAL")
         => Core(ozterm_have_read_from_master(w0, RemoveAt(data, k), Len(data) - 1))
              = CurCore

ESC_7 == <<ESC, CH_7>>
ESC_8 == <<ESC, CH_8>>

InputsSave ==
  { ESC_7, ESC_8, <<ESC>>, <<CH_7>>, <<CH_A>>, <<LF>>, <<CR>>, <<TAB>>,
    CSI(<<CH_2, CH_semi, CH_3>>, CH_H), CSI(<<>>, CH_H), CSI(<<CH_9>>, CH_B),
    <<ESC, CH_M>>, <<ESC, CH_c>>, ALT_ON, ALT_OFF,
    CSI(<<CH_2, CH_semi, CH_2>>, CH_H) \o ESC_7 }

NextSave == \E data \in InputsSave : Feed(1, data)

SpecSave == Init /\ [][NextSave]_vars

\* The parse state after the first k bytes of the last fed buffer.
StateAfter(k) ==
  ozterm_have_read_from_master(PrevWorld(lastcall.id), SubSeq(lastcall.data, 1, k), k)
    .ps.parse_state

\* The last fed buffer held a '7' that was handled as the byte after ESC.
SavedInCall ==
  \E k \in 1..Len(lastcall.data) :
    lastcall.data[k] = CH_7 /\ StateAfter(k - 1) = "ESC"

Saved(t) == <<t.saved_cursor_row, t.saved_cursor_column>>
CursorOf(s) == <<s.cursor_row, s.cursor_column>>

\* C11: ESC 7, then any cursor motions, writes, scrolls and screen swaps, then
\* ESC 8 sets the active screen's cursor to the (row, col) current at the
\* ESC 7: ESC 7 stores the active cursor, no call without an ESC 7 changes
\* the stored pair, and ESC 8 moves the active cursor to exactly that pair.
C11_SaveRestoreCursor ==
  IsFeed =>
    /\ (lastcall.data = ESC_7 /\ prev.parser.parse_state = "NORMAL")
         => Saved(Cur) = CursorOf(OldActive)
    /\ ~SavedInCall => Saved(Cur) = Saved(Old)
    /\ (lastcall.data = ESC_8 /\ prev.parser.parse_state = "NORMAL")
         => CursorOf(CurActive) = Saved(Old)

\* ESC 8 on the alternate screen took its cursor, which was elsewhere, to a
\* position saved on the main screen away from the origin.
C11_Witness ==
  /\ IsFeed /\ lastcall.data = ESC_8 /\ prev.parser.parse_state = "NORMAL"
  /\ Cur.alternative_active = 1
  /\ Saved(Old) = <<1, 1>>
  /\ CursorOf(OldActive) # Saved(Old)
  /\ CursorOf(CurActive) = <<1, 1>>

(***************************************************************************)
(* SpecAlt: one terminal; swaps to the alternate screen and back, alone    *)
(* and inside one buffer with the bytes written in between.                *)
(***************************************************************************)
ALT_OFF_GT == CSI(<<CH_gt>> \o STR_1049, CH_l)
STR_40000 == <<CH_4, CH_0, CH_0, CH_0, CH_0>>
ERASE_ALL == CSI(<<CH_2>>, CH_J)

InputsAlt ==
  { ALT_ON, ALT_OFF, ALT_OFF_GT, <<CH_A>>, <<LF>>, <<ESC>>, ERASE_ALL, <<ESC, CH_c>>,
    CSI(<<CH_2, CH_semi, CH_2>>, CH_H),
    SGR_PROTECT \o <<CH_B>>,
    ALT_ON \o <<CH_A, LF>> \o ALT_OFF,
    ALT_ON \o ERASE_ALL \o <<ESC, CH_c, CH_A>> \o ALT_OFF,
    ALT_ON \o ALT_OFF_GT \o <<CH_A>> \o ALT_OFF,
    ALT_ON \o <<CH_A, ESC>> \o ALT_OFF,
    ALT_ON \o CSI(STR_40000, CH_at) \o ALT_OFF }

NextAlt == \E data \in InputsAlt : Feed(1, data)

SpecAlt == Init /\ [][NextAlt]_vars

Contains(data, pat) ==
  \E i \in 1..(Len(data) - Len(pat) + 1) : SubSeq(data, i, i + Len(pat) - 1) = pat

\* Where the bytes between the h and the l of the last fed buffer end.
MiddleEnd == Len(lastcall.data) - Len(ALT_OFF)

\* The last fed buffer is ESC [ ? 1049 h, bytes without ESC [ ? 1049 l, then
\* ESC [ ? 1049 l, and the parser was in NORMAL for its first byte.
RoundTrip ==
  /\ IsFeed /\ prev.parser.parse_state = "NORMAL"
  /\ Len(lastcall.data) >= Len(ALT_ON) + Len(ALT_OFF)
  /\ SubSeq(lastcall.data, 1, Len(ALT_ON)) = ALT_ON
  /\ SubSeq(lastcall.data, MiddleEnd + 1, Len(lastcall.data)) = ALT_OFF
  /\ ~Contains(SubSeq(lastcall.data, Len(ALT_ON) + 1, MiddleEnd), ALT_OFF)

\* Whether the alternate screen is active after the first k bytes of the last
\* fed buffer.
AltAfter(k) ==
  ozterm_have_read_from_master(PrevWorld(lastcall.id), SubSeq(lastcall.data, 1, k), k)
    .t.alternative_active = 1

\* The cells and the cursor of the main screen.
MainView(t) ==
  [buffer |-> t.screen_main.buffer,
   cursor_row |-> t.screen_main.cursor_row,
   cursor_column |-> t.screen_main.cursor_column]

MainRestored == Cur.alternative_active = 0 /\ MainView(Cur) = MainView(Old)

\* C12: ESC [ ? 1049 h, then bytes during which the alternate screen stays
\* active and which leave the parser in NORMAL, then ESC [ ? 1049 l make the
\* main screen active with its cells and cursor as they were before the h;
\* and no fed buffer during which the alternate screen stays active changes
\* a cell or the cursor of the main screen.
C12_AltRoundTrip ==
  /\ (/\ RoundTrip
      /\ \A k \in Len(ALT_ON)..MiddleEnd : AltAfter(k)
      /\ StateAfter(MiddleEnd) = "NORMAL")
     => MainRestored
  /\ (IsFeed /\ \A k \in 0..Len(lastcall.data) : AltAfter(k))
     => MainView(Cur) = MainView(Old)

\* C13: immediately after ozterm_create every cell of the main and of the
\* alternate screen is a space with the default color and protected = 0, both
\* cursors are at (0, 0), the main screen is active, the scroll region is
\* [0, rows-1], and scrollback_count, scrollback_head and scroll_offset are 0.
C13_FreshTerminal ==
  lastcall.op = "create" =>
    \A id \in TermIds :
      LET t == terminals[id]
      IN /\ \A s \in Screens(t) :
              /\ \A idx \in DOMAIN s.buffer : s.buffer[idx] = BlankCell(t)
              /\ s.cursor_row = 0 /\ s.cursor_column = 0
         /\ t.color = DEFAULT_COLOR
         /\ t.alternative_active = 0
         /\ t.scroll_top = 0 /\ t.scroll_bottom = t.row_count - 1
         /\ t.scrollback_count = 0 /\ t.scrollback_head = 0 /\ t.scroll_offset = 0

(***************************************************************************)
(* SpecCells: one terminal; bytes that are not printable, DECALN, and      *)
(* insert / delete character counts below and above what 16 bits hold.     *)
(***************************************************************************)
InputsCells ==
  { <<CH_A>>, <<LF, LF, LF>>, <<TAB>>, <<11>>, <<12, CH_B>>, <<DEL>>, <<200>>,
    <<ESC, CH_hash, CH_8>>, ALT_ON, ALT_OFF,
    CSI(<<CH_2, CH_semi, CH_2>>, CH_H),
    CSI(<<CH_2>>, CH_at), CSI(<<>>, CH_P),
    CSI(STR_40000, CH_at), CSI(STR_40000, CH_P) }

NextCells == \E data \in InputsCells : Feed(1, data)

SpecCells == Init /\ [][NextCells]_vars

\* The slots of the ring that hold a row: the scrollback_count slots before
\* scrollback_head.
ValidSlots(t) ==
  { (t.scrollback_head + ScrollbackLines - k) % ScrollbackLines : k \in 1..t.scrollback_count }

Printable(c) == c >= 32 /\ c <= 126

\* C14: in every reachable state every cell of the active screen and of every
\* valid scrollback row holds a character in 0x20..0x7E.
C14_CellsPrintable ==
  \A id \in TermIds :
    LET t == terminals[id]
        video == screen_active(t).buffer
    IN /\ \A idx \in DOMAIN video : Printable(video[idx].character)
       /\ \A slot \in ValidSlots(t) : \A x \in DOMAIN t.scrollback[slot] :
            Printable(t.scrollback[slot][x].character)

\* No call has read or written a cell outside the buffers.
NoOutsideAccess == ~ub

\* Row r of a cell buffer, as the ring stores a row.
RowOf(t, buf, r) == [x \in 0..(t.column_count - 1) |-> buf[r * t.column_count + x]]

BlankRow(t) == [x \in 0..(t.column_count - 1) |-> BlankCell(t)]

Min(a, b) == IF a < b THEN a ELSE b

REQ_DSR == CSI(STR_6, CH_n)
REQ_DA_PRIMARY == CSI(STR_0, CH_c)
REQ_DA_SECONDARY == CSI(<<CH_gt>>, CH_c)
REQ_DECID == <<ESC, CH_Z>>
REQ_WINDOW == CSI(STR_11, CH_t)

Requests == {REQ_DSR, REQ_DA_PRIMARY, REQ_DA_SECONDARY, REQ_DECID, REQ_WINDOW}

\* The requests one buffer holds: one, two or three of them.
RequestSeqs ==
  { <<q>> : q \in Requests }
    \cup { <<REQ_DSR, q>> : q \in Requests }
    \cup { <<q, REQ_DSR>> : q \in Requests }
    \cup { <<REQ_DECID, REQ_DA_PRIMARY>>, <<REQ_DA_PRIMARY, REQ_DA_SECONDARY>>,
           <<REQ_WINDOW, REQ_DECID>>, <<REQ_DA_SECONDARY, REQ_WINDOW>>,
           <<REQ_WINDOW, REQ_DSR, REQ_DA_PRIMARY>> }

RECURSIVE Flatten(_)
Flatten(ss) == IF ss = <<>> THEN <<>> ELSE Head(ss) \o Flatten(Tail(ss))

InputsReply ==
  { Flatten(qs) : qs \in RequestSeqs }
    \cup { <<CH_A>>, <<LF>>, CSI(<<CH_2, CH_semi, CH_3>>, CH_H), ALT_ON }

NextReply == \E data \in InputsReply : Feed(1, data)

SpecReply == Init /\ [][NextReply]_vars

\* The bytes the claim gives for the reply to a request, with the cursor of s.
ExpectedReply(q, s) ==
  CASE q = REQ_DSR ->
         <<ESC, CH_lbracket>> \o FormatDecimal(s.cursor_row + 1) \o <<CH_semi>>
            \o FormatDecimal(s.cursor_column + 1) \o <<CH_R>>
    [] q = REQ_DA_PRIMARY -> <<ESC, CH_lbracket, CH_quest, CH_1, CH_semi, CH_0, CH_c>>
    [] q = REQ_DA_SECONDARY ->
         <<ESC, CH_lbracket, CH_gt, CH_0, CH_semi, CH_0, CH_semi, CH_0, CH_c>>
    [] q = REQ_DECID -> <<ESC, CH_lbracket, CH_quest, CH_6, CH_c>>
    [] q = REQ_WINDOW -> <<ESC, CH_lbracket, CH_1, CH_t>>

\* Cells, cursors and scroll region of an instance.
GridOf(t) ==
  [screen_main |-> t.screen_main, screen_alternative |-> t.screen_alternative,
   scroll_top |-> t.scroll_top, scroll_bottom |-> t.scroll_bottom]

\* C16: each reply request makes exactly one write_to_master call, with the
\* bytes of its reply, and changes no cell, cursor or scroll-region value;
\* the replies to the requests of one buffer are written in the order of the
\* requests.
C16_Replies ==
  (IsFeed /\ prev.parser.parse_state = "NORMAL") =>
    \A qs \in RequestSeqs :
      lastcall.data = Flatten(qs) =>
        /\ written[lastcall.id] =
             prev.written[lastcall.id] \o [i \in 1..Len(qs) |-> ExpectedReply(qs[i], OldActive)]
        /\ GridOf(Cur) = GridOf(Old)

\* A window-state request, a position request with the cursor at (1, 2) and
\* a device-attributes request came in one buffer after an earlier reply.
C16_Witness ==
  /\ IsFeed /\ lastcall.data = Flatten(<<REQ_WINDOW, REQ_DSR, REQ_DA_PRIMARY>>)
  /\ prev.parser.parse_state = "NORMAL"
  /\ CursorOf(OldActive) = <<1, 2>>
  /\ Len(prev.written[lastcall.id]) = 1
  /\ Len(written[lastcall.id]) = 4
  /\ written[lastcall.id][3] = <<ESC, CH_lbracket, CH_2, CH_semi, CH_3, CH_R>>

(***************************************************************************)
(* SpecKeys: one terminal; a key press with any modifier mask, on a fresh  *)
(* terminal or after some bytes were fed, and bytes fed after it.          *)
(***************************************************************************)
\* The bits of OztermKeyModifier.
KeyModifiers == {"LEFTSHIFT", "RIGHTSHIFT", "ALT", "CTRL"}

\* The enumerators of OztermKey that ozterm_send_key has a case for.
CsiKeys ==
  {"HOME", "END", "UP", "DOWN", "LEFT", "RIGHT", "PAGEUP", "PAGEDOWN", "INSERT", "DELETE",
   "F1", "F2", "F3", "F4", "F5", "F6", "F7", "F8", "F9", "F10", "F11", "F12"}
ControlKeys == {"RETURN", "BACKSPACE", "ESCAPE", "TAB"}

\* A key value: a named key, or a byte that is none of the enumerators.
NamedKey(name) == [name |-> name, byte |-> 0]
LiteralKey(b) == [name |-> "BYTE", byte |-> b]

KeysPressed ==
  { NamedKey(n) : n \in CsiKeys \cup ControlKeys } \cup { LiteralKey(b) : b \in 0..255 }

InputsKeys == { <<CH_A>>, ALT_ON }

\* The host sends one key at a time; the model follows a run up to its first
\* key press and through the bytes fed after it.
NextKeys ==
  \/ \E data \in InputsKeys : Feed(1, data)
  \/ /\ written[1] = <<>>
     /\ \E modifier \in SUBSET KeyModifiers, key \in KeysPressed : SendKey(1, modifier, key)

SpecKeys == Init /\ [][NextKeys]_vars

IsSendKey == lastcall.op = "send_key"

\* mod_value as the claim gives it.
ModValue(modifier) ==
  1 + (IF "LEFTSHIFT" \in modifier \/ "RIGHTSHIFT" \in modifier THEN 1 ELSE 0)
    + (IF "ALT" \in modifier THEN 2 ELSE 0)
    + (IF "CTRL" \in modifier THEN 4 ELSE 0)

\* The code of a named key in the claim's table, as decimal digits.
CodeDigits(name) ==
  CASE name \in {"HOME", "END", "UP", "DOWN", "LEFT", "RIGHT", "F1", "F2", "F3", "F4"} -> <<CH_1>>
    [] name = "PAGEUP" -> <<CH_5>>
    [] name = "PAGEDOWN" -> <<CH_6>>
    [] name = "INSERT" -> <<CH_2>>
    [] name = "DELETE" -> <<CH_3>>
    [] name = "F5" -> <<CH_1, CH_5>>
    [] name = "F6" -> <<CH_1, CH_7>>
    [] name = "F7" -> <<CH_1, CH_8>>
    [] name = "F8" -> <<CH_1, CH_9>>
    [] name = "F9" -> <<CH_2, CH_0>>
    [] name = "F10" -> <<CH_2, CH_1>>
    [] name = "F11" -> <<CH_2, CH_3>>
    [] name = "F12" -> <<CH_2, CH_4>>

\* The final byte of a named key in the claim's table.
FinalByte(name) ==
  CASE name = "HOME" -> CH_H
    [] name = "END" -> CH_F
    [] name = "UP" -> CH_A
    [] name = "DOWN" -> CH_B
    [] name = "LEFT" -> CH_D
    [] name = "RIGHT" -> CH_C
    [] name = "F1" -> CH_P
    [] name = "F2" -> CH_Q
    [] name = "F3" -> CH_R
    [] name = "F4" -> CH_S
    [] OTHER -> CH_tilde

\* The bytes the claim gives for a named key under a modifier mask.
ExpectedKey(name, modifier) ==
  IF ModValue(modifier) = 1
  THEN IF name \in {"F1", "F2", "F3", "F4"} THEN <<ESC, CH_O, FinalByte(name)>>
       ELSE IF CodeDigits(name) = <<CH_1>> THEN <<ESC, CH_lbracket, FinalByte(name)>>
       ELSE <<ESC, CH_lbracket>> \o CodeDigits(name) \o <<FinalByte(name)>>
  ELSE <<ESC, CH_lbracket>> \o CodeDigits(name) \o <<CH_semi, CH_0 + ModValue(modifier)>>
         \o <<FinalByte(name)>>

\* C17: for each of HOME, END, UP, DOWN, LEFT, RIGHT, PAGEUP, PAGEDOWN,
\* INSERT, DELETE, F1..F12 and every modifier mask, ozterm_send_key makes
\* exactly one write_to_master call, whose bytes are those of the claim's
\* table: ESC O P|Q|R|S for F1..F4 and ESC [ final or ESC [ code final for
\* the others when mod_value is 1, ESC [ code ; mod_value final otherwise.
C17_NamedKeys ==
  (IsSendKey /\ lastcall.key.name \in CsiKeys) =>
    written[lastcall.id] =
      Append(prev.written[lastcall.id], ExpectedKey(lastcall.key.name, lastcall.modifier))

\* UP was pressed with CTRL and left SHIFT and ESC [ 1 ; 6 A was written.
C17_Witness ==
  /\ IsSendKey /\ lastcall.key.name = "UP" /\ lastcall.modifier = {"CTRL", "LEFTSHIFT"}
  /\ written[lastcall.id] = <<<<ESC, CH_lbracket, CH_1, CH_semi, CH_6, CH_A>>>>

\* The byte the claim gives for each named control key.
ExpectedControl(name) ==
  CASE name = "RETURN" -> CR
    [] name = "BACKSPACE" -> DEL
    [] name = "ESCAPE" -> ESC
    [] name = "TAB" -> TAB

\* The bytes of the one write_to_master call of the last ozterm_send_key, or
\* the empty sequence when it made none or more than one.
KeyWritten ==
  IF Len(written[lastcall.id]) = Len(prev.written[lastcall.id]) + 1
       /\ SubSeq(written[lastcall.id], 1, Len(prev.written[lastcall.id]))
            = prev.written[lastcall.id]
  THEN written[lastcall.id][Len(written[lastcall.id])]
  ELSE <<>>

\* C18: for a literal byte key ozterm_send_key makes one write of one byte:
\* the byte itself under no modifier, toupper(byte) - 0x40 (as a byte) when
\* the mask is exactly CTRL and the byte is graphic; RETURN, BACKSPACE,
\* ESCAPE and TAB write 0x0D, 0x7F, 0x1B and 0x09 under every mask.
C18_LiteralKeys ==
  IsSendKey =>
    /\ lastcall.key.name = "BYTE" =>
         /\ Len(KeyWritten) = 1
         /\ lastcall.modifier = {} => KeyWritten = <<lastcall.key.byte>>
         /\ (lastcall.modifier = {"CTRL"} /\ isgraph(lastcall.key.byte)) =>
              KeyWritten = <<(toupper(lastcall.key.byte) - CH_at) % 256>>
    /\ lastcall.key.name \in ControlKeys =>
         KeyWritten = <<ExpectedControl(lastcall.key.name)>>

\* CTRL with the literal byte 'c' wrote the one byte 0x03.
C18_Witness ==
  /\ IsSendKey /\ lastcall.key = LiteralKey(CH_c) /\ lastcall.modifier = {"CTRL"}
  /\ KeyWritten = <<3>>

(***************************************************************************)
(* SpecType: one terminal; single printable bytes, carriage returns and    *)
(* backspaces are fed on either screen, over plain and protected cells,    *)
(* with rows in the scrollback and the view scrolled back.                 *)
(***************************************************************************)
InputsType ==
  { <<SP>>, <<CH_A>>, <<CH_tilde>>, <<CR>>, <<BS>>, <<ESC>>,
    <<CH_A, CH_B>>, <<CH_B, LF, LF, LF>>,
    SGR_PROTECT, PROTECTED_A \o <<CR>>, ALT_ON, ALT_OFF,
    CSI(<<CH_2, CH_semi, CH_2>>, CH_H),
    CSI(<<CH_2, CH_semi, CH_3>>, CH_r) }

NextType ==
  \/ \E data \in InputsType : Feed(1, data)
  \/ \E offset \in Offsets : Scroll(1, offset)

SpecType == Init /\ [][NextType]_vars

\* The last call fed the one byte c to a parser in NORMAL.
FedByte(c) ==
  IsFeed /\ lastcall.data = <<c>> /\ prev.parser.parse_state = "NORMAL"

\* The set_character callbacks of the last call.
SetCellCalls == SelectSeq(events, LAMBDA e : e[1] = "set_character")

\* Index of the cell under the cursor of the active screen before the call.
OldCursorIndex == OldActive.cursor_row * Old.column_count + OldActive.cursor_column

\* C19: a printable byte b fed in NORMAL with the cursor at (r, c), c <= cols-2,
\* sets cell (r, c) of the active screen to b with the default color and the
\* screen's attr_protected, changes no other cell of either screen, invokes
\* the set_character callback once, for (r, c), and leaves the cursor at
\* (r, c+1).
C19_PrintableWrite ==
  \A b \in SP..CH_tilde :
    (FedByte(b) /\ OldActive.cursor_column <= Old.column_count - 2) =>
      /\ CurActive.buffer =
           [OldActive.buffer EXCEPT ![OldCursorIndex] =
              [character |-> b, color |-> DEFAULT_COLOR,
               protected |-> OldActive.attr_protected]]
      /\ Cur.alternative_active = Old.alternative_active
      /\ Old.alternative_active = 1 => Cur.screen_main = Old.screen_main
      /\ Old.alternative_active = 0 => Cur.screen_alternative = Old.screen_alternative
      /\ SetCellCalls =
           <<<<"set_character", OldActive.cursor_row, OldActive.cursor_column, b>>>>
      /\ CursorOf(CurActive) = <<OldActive.cursor_row, OldActive.cursor_column + 1>>

\* '~' was written over a protected 'A' at (0, 0) while the protect attribute
\* was off.
C19_Witness ==
  /\ FedByte(CH_tilde)
  /\ CursorOf(OldActive) = <<0, 0>>
  /\ OldActive.buffer[0] = [character |-> CH_A, color |-> DEFAULT_COLOR, protected |-> 1]
  /\ CurActive.buffer[0] = [character |-> CH_tilde, color |-> DEFAULT_COLOR, protected |-> 0]
  /\ CursorOf(CurActive) = <<0, 1>>

\* Everything of an instance but the two cursors and the view offset.
BesidesCursor(t) ==
  [t EXCEPT !.screen_main.cursor_row = 0, !.screen_main.cursor_column = 0,
            !.screen_alternative.cursor_row = 0, !.screen_alternative.cursor_column = 0,
            !.scroll_offset = 0]

\* The cursor of the screen that is not active.
IdleCursor(t) ==
  CursorOf(IF t.alternative_active = 1 THEN t.screen_main ELSE t.screen_alternative)

\* C20: '\r' fed in NORMAL sets cursor_col to 0 and keeps cursor_row; '\b'
\* decrements cursor_col when it is above 0 and leaves the cursor alone at 0;
\* neither changes a cell, the scroll region or the scrollback, nor anything
\* else but the cursor of the active screen and the view offset.
C20_ReturnBackspace ==
  /\ FedByte(CR) =>
       /\ CursorOf(CurActive) = <<OldActive.cursor_row, 0>>
       /\ BesidesCursor(Cur) = BesidesCursor(Old)
       /\ IdleCursor(Cur) = IdleCursor(Old)
  /\ FedByte(BS) =>
       /\ CursorOf(CurActive) =
            <<OldActive.cursor_row,
              IF OldActive.cursor_column > 0 THEN OldActive.cursor_column - 1 ELSE 0>>
       /\ BesidesCursor(Cur) = BesidesCursor(Old)
       /\ IdleCursor(Cur) = IdleCursor(Old)

\* A backspace moved the cursor one column to the left, onto an 'A' that
\* stayed as it was.
C20_Witness ==
  /\ FedByte(BS)
  /\ OldActive.cursor_column > 0
  /\ CursorOf(CurActive) = <<OldActive.cursor_row, OldActive.cursor_column - 1>>
  /\ CurActive.buffer[OldCursorIndex - 1].character = CH_A
  /\ CurActive.buffer = OldActive.buffer

(***************************************************************************)
(* SpecTab: one terminal two tab stops wide; tabs, printable bytes and     *)
(* cursor moves.                                                           *)
(***************************************************************************)
TabCols == 2 * TAB_WIDTH

InitTab ==
  /\ terminals = [id \in TermIds |-> ozterm_create(Rows, TabCols)]
  /\ parser = ParserInit
  /\ written = [id \in TermIds |-> <<>>]
  /\ events = <<>>
  /\ ub = FALSE
  /\ nread = 0
  /\ prev = [terminals |-> [id \in TermIds |-> ozterm_create(Rows, TabCols)],
             parser |-> ParserInit,
             written |-> [id \in TermIds |-> <<>>]]
  /\ lastcall = [op |-> "create", id |-> 1, data |-> <<>>, offset |-> 0,
             modifier |-> {}, key |-> NoKey, outside |-> NoOutside]
  /\ steps = 0

InputsTab ==
  { <<TAB>>, <<CH_A>>, <<CH_A, CH_B, CH_C>>, <<CR>>, <<BS>>, <<LF>>, <<ESC>>,
    CSI(<<CH_7>>, CH_C), CSI(<<CH_9>>, CH_C), CSI(<<CH_1, CH_0>>, CH_G),
    SGR_PROTECT, ALT_ON }

NextTab == \E data \in InputsTab : Feed(1, data)

SpecTab == InitTab /\ [][NextTab]_vars

\* The next multiple of 8 strictly greater than c.
NextTabStop(c) == 8 * ((c \div 8) + 1)

\* C21: on a terminal whose cols is a multiple of 8, a tab fed in NORMAL with
\* the cursor at column c < cols leaves cursor_col at 8 * (c \div 8 + 1) and
\* the columns from c up to there hold spaces.
C21_TabStop ==
  (FedByte(TAB) /\ Old.column_count % 8 = 0
     /\ OldActive.cursor_column < Old.column_count) =>
    /\ CurActive.cursor_column = NextTabStop(OldActive.cursor_column)
    /\ CurActive.cursor_row = OldActive.cursor_row
    /\ \A x \in OldActive.cursor_column..(NextTabStop(OldActive.cursor_column) - 1) :
         CurActive.buffer[OldActive.cursor_row * Old.column_count + x].character = SP

(***************************************************************************)
(* SpecMove: one terminal; relative and absolute cursor moves with absent, *)
(* zero, small and large parameters, and the count-taking sequences.       *)
(***************************************************************************)
\* Parameters of a relative move: within the screen, beyond it, beyond what
\* 16 bits hold signed and unsigned.
MoveParams == {1, 2, 9, 40000, 65536, 99999}

MoveFinals == {CH_A, CH_B, CH_C, CH_D}

InputsMove ==
  { CSI(FormatDecimal(p), f) : p \in MoveParams, f \in MoveFinals }
    \cup { <<CH_A>>, <<LF>>, ALT_ON, CSI(<<CH_2, CH_semi, CH_2>>, CH_H) }

NextMove == \E data \in InputsMove : Feed(1, data)

SpecMove == Init /\ [][NextMove]_vars

Max(a, b) == IF a > b THEN a ELSE b

\* The last call fed CSI p f to a parser in NORMAL.
FedCsi(p, f) ==
  IsFeed /\ lastcall.data = CSI(FormatDecimal(p), f) /\ prev.parser.parse_state = "NORMAL"

\* C22: for every p1 in 1..99999, CSI p1 B leaves cursor_row at
\* min(cursor_row + p1, rows-1), CSI p1 A at max(cursor_row - p1, 0), CSI p1 C
\* leaves cursor_col at min(cursor_col + p1, cols-1) and CSI p1 D at
\* max(cursor_col - p1, 0), the other coordinate staying as it was.
C22_RelativeMoveClamped ==
  \A p \in MoveParams :
    /\ FedCsi(p, CH_B) =>
         CursorOf(CurActive) =
           <<Min(OldActive.cursor_row + p, Old.row_count - 1), OldActive.cursor_column>>
    /\ FedCsi(p, CH_A) =>
         CursorOf(CurActive) = <<Max(OldActive.cursor_row - p, 0), OldActive.cursor_column>>
    /\ FedCsi(p, CH_C) =>
         CursorOf(CurActive) =
           <<OldActive.cursor_row, Min(OldActive.cursor_column + p, Old.column_count - 1)>>
    /\ FedCsi(p, CH_D) =>
         CursorOf(CurActive) = <<OldActive.cursor_row, Max(OldActive.cursor_column - p, 0)>>

(***************************************************************************)
(* SpecCount: one terminal; every count-taking sequence with its parameter *)
(* absent and with the parameter 0, on a screen that holds text.           *)
(***************************************************************************)
CountFinals == {CH_A, CH_B, CH_C, CH_D, CH_at, CH_P, CH_L, CH_M, CH_S, CH_T}

InputsCount ==
  { CSI(<<>>, f) : f \in CountFinals } \cup { CSI(STR_0, f) : f \in CountFinals }
    \cup { <<CH_A, CH_B>>, <<CH_C, LF>>, CSI(<<CH_2, CH_semi, CH_2>>, CH_H), ALT_ON }

NextCount == \E data \in InputsCount : Feed(1, data)

SpecCount == Init /\ [][NextCount]_vars

\* The instance the last call was made on, had the call fed data instead.
InsteadOf(data) ==
  ozterm_have_read_from_master(PrevWorld(lastcall.id), data, Len(data)).t

\* C23: for each of the final bytes A, B, C, D, @, P, L, M, S and T, the
\* sequence with the first parameter absent and the sequence with the
\* parameter 0 have the effect of the sequence with the parameter 1.
C23_ZeroActsAsOne ==
  \A f \in CountFinals :
    (IsFeed /\ prev.parser.parse_state = "NORMAL"
       /\ lastcall.data \in {CSI(<<>>, f), CSI(STR_0, f)}) =>
      Cur = InsteadOf(CSI(<<CH_1>>, f))

(***************************************************************************)
(* SpecGoto: one terminal; absolute cursor moves to every position of the  *)
(* screen, on a screen that holds text.                                    *)
(***************************************************************************)
\* The parameter string "p1;p2".
Params2(p1, p2) == FormatDecimal(p1) \o <<CH_semi>> \o FormatDecimal(p2)

\* ESC [ 2 J, a move to row 2 column 2, and a letter.
ERASE_GOTO_A == ERASE_ALL \o CSI(Params2(2, 2), CH_H) \o <<CH_A>>

InputsGoto ==
  { CSI(Params2(p1, p2), CH_H) : p1 \in 1..Rows, p2 \in 1..Cols }
    \cup { CSI(Params2(1, 1), CH_f), CSI(Params2(2, 3), CH_f), CSI(Params2(Rows, Cols), CH_f) }
    \cup { CSI(FormatDecimal(p1), CH_d) : p1 \in 1..Rows }
    \cup { CSI(FormatDecimal(p2), CH_G) : p2 \in 1..Cols }
    \cup { PROTECTED_A, ERASE_GOTO_A }

NextGoto == \E data \in InputsGoto : Feed(1, data)

SpecGoto == Init /\ [][NextGoto]_vars

\* The last call fed data to a parser in NORMAL.
FedSeq(data) == IsFeed /\ lastcall.data = data /\ prev.parser.parse_state = "NORMAL"

\* The cells of both screens.
CellsOf(t) == <<t.screen_main.buffer, t.screen_alternative.buffer>>

\* C24: CSI p1;p2 H and CSI p1;p2 f with 1 <= p1 <= rows and 1 <= p2 <= cols
\* set the cursor to (p1-1, p2-1), CSI p1 d sets the row to p1-1 and keeps
\* the column, CSI p2 G sets the column to p2-1 and keeps the row, and none
\* of them changes a cell; ESC [ 2 J, ESC [ 2;2 H and a letter on a screen
\* without protected cells leave that letter at (1, 1) as the only cell that
\* is not a space, and the cursor at (1, 2).
C24_AbsoluteMove ==
  /\ \A p1 \in 1..Old.row_count, p2 \in 1..Old.column_count :
       /\ (FedSeq(CSI(Params2(p1, p2), CH_H)) \/ FedSeq(CSI(Params2(p1, p2), CH_f))) =>
            CursorOf(CurActive) = <<p1 - 1, p2 - 1>> /\ CellsOf(Cur) = CellsOf(Old)
       /\ FedSeq(CSI(FormatDecimal(p1), CH_d)) =>
            /\ CursorOf(CurActive) = <<p1 - 1, OldActive.cursor_column>>
            /\ CellsOf(Cur) = CellsOf(Old)
       /\ FedSeq(CSI(FormatDecimal(p2), CH_G)) =>
            /\ CursorOf(CurActive) = <<OldActive.cursor_row, p2 - 1>>
            /\ CellsOf(Cur) = CellsOf(Old)
  /\ (FedSeq(ERASE_GOTO_A) /\ \A i \in DOMAIN OldActive.buffer : OldActive.buffer[i].protected = 0) =>
       /\ CursorOf(CurActive) = <<1, 2>>
       /\ \A i \in DOMAIN CurActive.buffer :
            CurActive.buffer[i].character = (IF i = Old.column_count + 1 THEN CH_A ELSE SP)

\* ESC [ 3;2 H moved the cursor from (1, 0) to (2, 1) over a screen that holds
\* a protected 'A' at (0, 0).
C24_Witness ==
  /\ FedSeq(CSI(Params2(3, 2), CH_H))
  /\ CursorOf(OldActive) = <<1, 0>>
  /\ CursorOf(CurActive) = <<2, 1>>
  /\ CurActive.buffer[0].character = CH_A
  /\ CurActive.buffer[0].protected = 1

(***************************************************************************)
(* SpecRegion: one terminal; scroll regions set with parameters inside and *)
(* outside the screen, on either screen, with text and the cursor anywhere.*)
(***************************************************************************)
\* Region parameters: 0, a row of the screen, the first row below the screen
\* and a number beyond what 16 bits hold.
RegionParams == {0, 2, Rows + 1, 99999}

InputsRegion ==
  { CSI(Params2(p1, p2), CH_r) : p1 \in RegionParams, p2 \in RegionParams }
    \cup { CSI(Params2(1, Rows), CH_r), CSI(Params2(2, 3), CH_r), CSI(<<CH_9>>, CH_r),
           <<CH_A>>, <<LF>>, ALT_ON, CSI(Params2(2, 2), CH_H) }

NextRegion == \E data \in InputsRegion : Feed(1, data)

SpecRegion == Init /\ [][NextRegion]_vars

\* The instance with the scroll region of a new one and the live view.
FullRegion(t) ==
  [t EXCEPT !.scroll_top = ozterm_create(t.row_count, t.column_count).scroll_top,
            !.scroll_bottom = ozterm_create(t.row_count, t.column_count).scroll_bottom,
            !.scroll_offset = 0]

\* C25: CSI 1;rows r leaves scroll_top = 0 and scroll_bottom = rows-1, the
\* region of a new terminal, and so does a CSI r whose top or bottom
\* parameter lies outside [1, rows]; such a sequence changes nothing else of
\* the terminal (cells, cursors), accesses no memory outside the buffers and
\* leaves the parser in NORMAL.
C25_RegionReset ==
  /\ FedSeq(CSI(Params2(1, Old.row_count), CH_r)) =>
       /\ Cur.scroll_top = 0 /\ Cur.scroll_bottom = Old.row_count - 1
       /\ Cur = FullRegion(Old)
  /\ \A p1 \in RegionParams, p2 \in RegionParams :
       (FedSeq(CSI(Params2(p1, p2), CH_r))
          /\ (p1 \notin 1..Old.row_count \/ p2 \notin 1..Old.row_count)) =>
         /\ Cur.scroll_top = 0 /\ Cur.scroll_bottom = Old.row_count - 1
         /\ Cur = FullRegion(Old)
         /\ ~ub
         /\ parser.parse_state = "NORMAL"
         /\ written = prev.written

\* ESC [ 2;0 r reset a region that was rows 1..2, with the cursor at (1, 1) and
\* an 'A' on the screen.
C25_Witness ==
  /\ FedSeq(CSI(Params2(2, 0), CH_r))
  /\ Old.scroll_top = 1
  /\ Cur.scroll_top = 0 /\ Cur.scroll_bottom = Cur.row_count - 1
  /\ \E i \in DOMAIN CurActive.buffer : CurActive.buffer[i].character = CH_A

(***************************************************************************)
(* SpecTwice: one terminal; ESC [ 2 J once and twice, after text, protected*)
(* cells, a screen switch, a narrowed region and unfinished sequences.     *)
(***************************************************************************)
ERASE_TWICE == ERASE_ALL \o ERASE_ALL

InputsTwice ==
  { ERASE_ALL, ERASE_TWICE, <<CH_A>>, <<LF>>, PROTECTED_A, ALT_ON, CSI(Params2(2, 3), CH_r),
    <<ESC>>, <<ESC, CH_lbracket, CH_1>>, <<ESC, CH_rbracket, CH_0>>, <<ESC, CH_hash>> }

NextTwice ==
  \/ \E data \in InputsTwice : Feed(1, data)
  \/ \E offset \in Offsets : Scroll(1, offset)

SpecTwice == Init /\ [][NextTwice]_vars

\* The terminal after ESC [ 2 J is fed once more in the current state.
ErasedAgain ==
  ozterm_have_read_from_master(World(lastcall.id), ERASE_ALL, Len(ERASE_ALL)).t

\* C26 as stated: from any reachable state, ESC [ 2 J fed twice in a row
\* leaves the same cells, cursor, scroll region and scrollback as fed once.
C26_EraseTwice_AnyState ==
  /\ (IsFeed /\ lastcall.data = ERASE_TWICE) => Cur = InsteadOf(ERASE_ALL)
  /\ (IsFeed /\ lastcall.data = ERASE_ALL) => ErasedAgain = Cur

\* C26 (amended): from any reachable state in which the parser is in NORMAL,
\* ESC [ 2 J fed twice in a row, in one buffer or in two, leaves the same
\* cells, cursor, scroll region and scrollback as fed once.
C26_EraseTwice ==
  /\ FedSeq(ERASE_TWICE) => Cur = InsteadOf(ERASE_ALL)
  /\ FedSeq(ERASE_ALL) => ErasedAgain = Cur

\* ESC [ 2 J was fed twice in one buffer to a screen that held a protected
\* and an unprotected 'A' and erased the unprotected one.
C26_Witness ==
  /\ FedSeq(ERASE_TWICE)
  /\ \E i, j \in DOMAIN OldActive.buffer :
       /\ OldActive.buffer[i].character = CH_A /\ OldActive.buffer[i].protected = 1
       /\ OldActive.buffer[j].character = CH_A /\ OldActive.buffer[j].protected = 0
       /\ CurActive.buffer[i] = OldActive.buffer[i]
       /\ CurActive.buffer[j].character = SP

(***************************************************************************)
(* SpecSgr: one terminal; SGR lists with and without the values 0 and 8,   *)
(* among writes, cursor motion, erase, ESC c, scrolling and screen swaps.  *)
(***************************************************************************)
\* SGR parameter lists with what each does to attr_protected.
SgrLists ==
  { [list |-> <<CH_8>>, effect |-> "set"],
    [list |-> <<CH_0>>, effect |-> "clear"],
    [list |-> <<CH_8, CH_semi, CH_0>>, effect |-> "clear"],
    [list |-> <<CH_0, CH_semi, CH_8>>, effect |-> "set"],
    [list |-> <<CH_1, CH_semi, CH_8>>, effect |-> "set"],
    [list |-> <<CH_3, CH_1, CH_semi, CH_2, CH_2>>, effect |-> "keep"],
    [list |-> <<CH_8, CH_0>>, effect |-> "keep"] }

\* Cursor motion, erase, ESC c, scrolling, screen swap, newline and tab.
NonSgrInputs ==
  { <<LF>>, <<TAB>>, <<ESC, CH_c>>, ERASE_ALL, CSI(<<>>, CH_K), CSI(Params2(2, 2), CH_H),
    CSI(<<>>, CH_S), CSI(<<>>, CH_T), ALT_ON, ALT_OFF }

InputsSgr ==
  { CSI(e.list, CH_m) : e \in SgrLists } \cup NonSgrInputs \cup { <<CH_A>> }

NextSgr ==
  \/ \E data \in InputsSgr : Feed(1, data)
  \/ \E offset \in Offsets : Scroll(1, offset)

SpecSgr == Init /\ [][NextSgr]_vars

\* attr_protected of the main and of the alternate screen.
StickyOf(t) == <<t.screen_main.attr_protected, t.screen_alternative.attr_protected>>

\* C27: attr_protected of a screen changes only through an SGR handled while
\* that screen is active: a CSI ... m list containing 8 sets it and one
\* containing 0 clears it, the later of the two in a list deciding; a list
\* without 0 and 8, cursor motion, erase, ESC c, scrolling, a screen swap
\* and a view scroll leave it unchanged on both screens; a cell written by a
\* printable byte takes its protected bit from the attr_protected of the
\* active screen at the time of the write.
C27_StickyProtect ==
  /\ \A e \in SgrLists :
       FedSeq(CSI(e.list, CH_m)) =>
         /\ Cur.alternative_active = Old.alternative_active
         /\ CurActive.attr_protected =
              (CASE e.effect = "set" -> 1
                 [] e.effect = "clear" -> 0
                 [] OTHER -> OldActive.attr_protected)
         /\ Old.alternative_active = 1 =>
              Cur.screen_main.attr_protected = Old.screen_main.attr_protected
         /\ Old.alternative_active = 0 =>
              Cur.screen_alternative.attr_protected = Old.screen_alternative.attr_protected
  /\ \A data \in NonSgrInputs \cup { <<CH_A>> } : FedSeq(data) => StickyOf(Cur) = StickyOf(Old)
  /\ lastcall.op = "scroll" => StickyOf(Cur) = StickyOf(Old)
  /\ FedByte(CH_A) =>
       /\ CurActive.buffer[OldCursorIndex].character = CH_A
       /\ CurActive.buffer[OldCursorIndex].protected = OldActive.attr_protected

\* An 'A' was written protected: an earlier ESC [ ... 8 m had set the
\* attribute and it was still set at the write.
C27_Witness ==
  /\ FedByte(CH_A)
  /\ OldActive.attr_protected = 1
  /\ CurActive.buffer[OldCursorIndex].protected = 1
  /\ OldActive.buffer[OldCursorIndex].protected = 0

(***************************************************************************)
(* SpecErase: one terminal; CSI J and CSI K in every mode, with the cursor *)
(* anywhere, over rows of protected and unprotected cells, on either       *)
(* screen and with rows in the scrollback.                                 *)
(***************************************************************************)
\* The erase sequences with the kind of range each names.
EraseModes ==
  { [data |-> CSI(<<>>, CH_K), final |-> CH_K, mode |-> 0],
    [data |-> CSI(<<CH_0>>, CH_K), final |-> CH_K, mode |-> 0],
    [data |-> CSI(<<CH_1>>, CH_K), final |-> CH_K, mode |-> 1],
    [data |-> CSI(<<CH_2>>, CH_K), final |-> CH_K, mode |-> 2],
    [data |-> CSI(<<>>, CH_J), final |-> CH_J, mode |-> 0],
    [data |-> CSI(<<CH_1>>, CH_J), final |-> CH_J, mode |-> 1],
    [data |-> CSI(<<CH_2>>, CH_J), final |-> CH_J, mode |-> 2] }

\* A protected 'A' followed by two unprotected ones.
PROTECTED_A_A_A == PROTECTED_A \o <<CH_A, CH_A>>

InputsErase ==
  { e.data : e \in EraseModes }
    \cup { <<CH_A>>, PROTECTED_A_A_A, <<CH_B, LF, LF, LF>>, ALT_ON,
           CSI(Params2(1, 2), CH_H), CSI(Params2(2, 2), CH_H), CSI(Params2(2, 3), CH_r) }

NextErase == \E data \in InputsErase : Feed(1, data)

SpecErase == Init /\ [][NextErase]_vars

\* Cell (y, x) lies in the range that mode e names for a cursor at (cy, cx).
InEraseRange(e, y, x, cy, cx) ==
  IF e.final = CH_K
  THEN /\ y = cy
       /\ CASE e.mode = 0 -> x >= cx
            [] e.mode = 1 -> x <= cx
            [] OTHER -> TRUE
  ELSE CASE e.mode = 0 -> y > cy \/ (y = cy /\ x >= cx)
         [] e.mode = 1 -> y < cy \/ (y = cy /\ x <= cx)
         [] OTHER -> TRUE

\* C28: with the cursor at (cy, cx), CSI K mode 0 blanks columns [cx, cols)
\* of row cy, mode 1 columns [0, cx], mode 2 the whole row; CSI J mode 0
\* blanks from (cy, cx) to the end of the screen, mode 1 from (0, 0) to
\* (cy, cx), mode 2 the whole screen; a protected cell of the range keeps its
\* character, color and bit, every cell outside the range and every cell of
\* the other screen is unchanged, and so are the cursors, the scroll region
\* and the scrollback.
C28_EraseExactRange ==
  \A e \in EraseModes :
    FedSeq(e.data) =>
      LET cy == OldActive.cursor_row
          cx == OldActive.cursor_column
          erased ==
            [idx \in DOMAIN OldActive.buffer |->
               IF /\ InEraseRange(e, idx \div Old.column_count, idx % Old.column_count, cy, cx)
                  /\ OldActive.buffer[idx].protected = 0
               THEN [character |-> SP, color |-> DEFAULT_COLOR, protected |-> 0]
               ELSE OldActive.buffer[idx]]
      IN /\ CurActive.buffer = erased
         /\ CursorOf(CurActive) = <<cy, cx>>
         /\ Cur = [with_active(Old, [OldActive EXCEPT !.buffer = erased])
                     EXCEPT !.scroll_offset = 0]

\* ESC [ 1 K with the cursor at (0, 1) on a row of a protected 'A' and two
\* unprotected ones: the protected one stayed, the one under the cursor was
\* blanked, the one right of the cursor stayed.
C28_Witness ==
  /\ FedSeq(CSI(<<CH_1>>, CH_K))
  /\ CursorOf(OldActive) = <<0, 1>>
  /\ OldActive.buffer[0].protected = 1 /\ CurActive.buffer[0] = OldActive.buffer[0]
  /\ OldActive.buffer[1].character = CH_A /\ CurActive.buffer[1].character = SP
  /\ OldActive.buffer[2].character = CH_A /\ CurActive.buffer[2] = OldActive.buffer[2]

(***************************************************************************)
(* SpecShift: one terminal wide enough for two cells to move past a        *)
(* protected one; rows of distinct letters, some of them protected, then   *)
(* CSI n @ and CSI n P from the first columns.                             *)
(***************************************************************************)
ShiftCols == Cols + 2

InitShift ==
  /\ terminals = [id \in TermIds |-> ozterm_create(Rows, ShiftCols)]
  /\ parser = ParserInit
  /\ written = [id \in TermIds |-> <<>>]
  /\ events = <<>>
  /\ ub = FALSE
  /\ nread = 0
  /\ prev = [terminals |-> [id \in TermIds |-> ozterm_create(Rows, ShiftCols)],
             parser |-> ParserInit,
             written |-> [id \in TermIds |-> <<>>]]
  /\ lastcall = [op |-> "create", id |-> 1, data |-> <<>>, offset |-> 0,
             modifier |-> {}, key |-> NoKey, outside |-> NoOutside]
  /\ steps = 0

\* The columns (counted from 1) whose letter is written protected.
ProtectedColumns == { {}, {2}, {3}, {1, 3}, {2, 4}, {3, 4} }

\* The bytes that write the letters 'A', 'B', ... into columns k.. of the
\* cursor's row, those of the columns in prot with SGR 8 set.
RECURSIVE LetterRow(_, _)
LetterRow(prot, k) ==
  IF k > ShiftCols THEN <<>>
  ELSE (IF k \in prot
        THEN SGR_PROTECT \o <<CH_A + k - 1>> \o CSI(<<CH_0>>, CH_m)
        ELSE <<CH_A + k - 1>>) \o LetterRow(prot, k + 1)

ShiftCounts == {1, 2, 3}

ShiftFinals == {CH_at, CH_P}

InputsShift ==
  { CSI(<<>>, CH_H) \o LetterRow(prot, 1) \o <<CR>> : prot \in ProtectedColumns }
    \cup { CSI(Params2(1, 2), CH_H), CSI(Params2(1, 3), CH_H) }
    \cup { CSI(FormatDecimal(n), f) : n \in ShiftCounts, f \in ShiftFinals }

NextShift == \E data \in InputsShift : Feed(1, data)

SpecShift == InitShift /\ [][NextShift]_vars

\* The cursor's row of the active screen before and after the call.
OldRow == RowOf(Old, OldActive.buffer, OldActive.cursor_row)
CurRow == RowOf(Cur, CurActive.buffer, OldActive.cursor_row)

\* Number of columns of a row that hold the cell.
Occurrences(row, cell) == Cardinality({ x \in DOMAIN row : row[x] = cell })

\* Every protected cell of the row is where it was.
ProtectedInPlace == \A x \in DOMAIN OldRow : OldRow[x].protected = 1 => CurRow[x] = OldRow[x]

\* Every cell of the row is blank default-colored or a cell of the row before
\* the shift, and no cell of the row before the shift appears more often
\* than it did.
NoDuplicates ==
  \A x \in DOMAIN CurRow :
    CurRow[x] # BlankCell(Old) =>
      Occurrences(CurRow, CurRow[x]) <= Occurrences(OldRow, CurRow[x])

\* C29: CSI n @ and CSI n P keep every protected cell of the cursor's row in
\* place and never duplicate a character: each original cell of the row is
\* the source of at most one resulting cell, also when protected and
\* unprotected cells interleave and n > 1; holes are filled with blank
\* default-colored cells.
C29_ShiftKeepsCells ==
  \A n \in ShiftCounts, f \in ShiftFinals :
    FedSeq(CSI(FormatDecimal(n), f)) => ProtectedInPlace /\ NoDuplicates

\* The part of C29 that the code meets: protected cells stay in place.
ShiftKeepsProtected ==
  \A n \in ShiftCounts, f \in ShiftFinals :
    FedSeq(CSI(FormatDecimal(n), f)) => ProtectedInPlace

\* No duplicate appears when one cell is inserted or deleted.
ShiftByOneNoDuplicates ==
  \A f \in ShiftFinals : FedSeq(CSI(FormatDecimal(1), f)) => NoDuplicates

(***************************************************************************)
(* SpecClamp: one terminal; CSI p1 @ and CSI p1 P with counts below, at and*)
(* above the width of the row and above what 16 bits hold.                 *)
(***************************************************************************)
\* Counts: within the row, the width of the row, beyond it, the largest
\* int16_t, and values that do not fit an int16_t.
ClampCounts == {1, 2, Cols, 9, 32767, 40000, 65536, 65537, 99999}

InputsClamp ==
  { CSI(FormatDecimal(p1), f) : p1 \in ClampCounts, f \in ShiftFinals }
    \cup { PROTECTED_A_A_A, <<CH_A, CH_B>>, <<CR>>, CSI(Params2(2, 2), CH_H) }

NextClamp == \E data \in InputsClamp : Feed(1, data)

SpecClamp == Init /\ [][NextClamp]_vars

\* The sequence with count p1 accessed only cells of the cursor's row from
\* the cursor's column on and acted as the count min(p1, cols - cursor_col).
ActsClamped(p1, f) ==
  /\ ~ub
  /\ \A idx \in DOMAIN CurActive.buffer :
       (idx \div Old.column_count # OldActive.cursor_row
          \/ idx % Old.column_count < OldActive.cursor_column) =>
         CurActive.buffer[idx] = OldActive.buffer[idx]
  /\ Cur = InsteadOf(CSI(FormatDecimal(Min(p1, Old.column_count - OldActive.cursor_column)), f))

\* C30: for every p1 in 1..99999, also above 32767, CSI p1 @ and CSI p1 P
\* read and write only cells of the cursor's row in columns
\* [cursor_col, cols) and act as if the count were min(p1, cols - cursor_col).
C30_ShiftCountClamped ==
  \A p1 \in ClampCounts, f \in ShiftFinals :
    FedSeq(CSI(FormatDecimal(p1), f)) => ActsClamped(p1, f)

\* The part of C30 that the code meets: counts that fit an int16_t.
ShiftCountClampedInt16 ==
  \A p1 \in { p \in ClampCounts : p <= 32767 }, f \in ShiftFinals :
    FedSeq(CSI(FormatDecimal(p1), f)) => ActsClamped(p1, f)

(***************************************************************************)
(* SpecLines: one terminal; CSI n L and CSI n M with the cursor on any row,*)
(* inside and outside a narrowed scroll region, over rows of different     *)
(* letters.                                                                *)
(***************************************************************************)
\* The bytes that write the letters 'A', 'B', ... into column 0 of rows k.. .
RECURSIVE LetterRows(_)
LetterRows(k) ==
  IF k > Rows THEN <<>>
  ELSE <<CH_A + k - 1>> \o (IF k < Rows THEN <<CR, LF>> ELSE <<>>) \o LetterRows(k + 1)

\* The rows 'A', 'B', ... written from the top, the cursor back at (0, 0).
LETTER_ROWS == CSI(<<>>, CH_H) \o LetterRows(1) \o CSI(<<>>, CH_H)

\* Line counts: within the region, its height at most, beyond it.
LineCounts == {1, 2, 9}

LineFinals == {CH_L, CH_M}

InputsLines ==
  { CSI(FormatDecimal(n), f) : n \in LineCounts, f \in LineFinals }
    \cup { CSI(Params2(r, 1), CH_H) : r \in 1..Rows }
    \cup { LETTER_ROWS, <<CH_B, LF, LF, LF>>, PROTECTED_A,
           CSI(Params2(2, 3), CH_r), CSI(Params2(1, 2), CH_r) }

NextLines == \E data \in InputsLines : Feed(1, data)

SpecLines == Init /\ [][NextLines]_vars

NoProtectedCells(s) == \A idx \in DOMAIN s.buffer : s.buffer[idx].protected = 0

\* The active buffer whose row y is row from(y) of the buffer before the
\* call, or blank where from(y) is -1.
RowsFrom(from(_)) ==
  [idx \in DOMAIN OldActive.buffer |->
     LET y == idx \div Old.column_count
         x == idx % Old.column_count
     IN IF from(y) = -1 THEN BlankCell(Old)
        ELSE OldActive.buffer[from(y) * Old.column_count + x]]

\* The terminal before the call with the active buffer replaced.
OldWithBuffer(buf) ==
  [with_active(Old, [OldActive EXCEPT !.buffer = buf]) EXCEPT !.scroll_offset = 0]

\* C31: with the cursor on row r inside [scroll_top, scroll_bottom] and no
\* protected cells, CSI n L moves rows [r, bottom-n] to [r+n, bottom] and
\* blanks rows [r, r+n), and CSI n M moves rows [r+n, bottom] to [r, bottom-n]
\* and blanks the last n rows of the region, n clamped to bottom-r+1; rows
\* above r and below scroll_bottom, the cursor and the scrollback are
\* unchanged; with the cursor outside the scroll region both change nothing.
C31_InsertDeleteLines ==
  \A p \in LineCounts :
    LET r == OldActive.cursor_row
        top == Old.scroll_top
        bottom == Old.scroll_bottom
        n == Min(p, bottom - r + 1)
    IN /\ (FedSeq(CSI(FormatDecimal(p), CH_L)) /\ NoProtectedCells(OldActive)) =>
            IF r >= top /\ r <= bottom
            THEN Cur = OldWithBuffer(RowsFrom(
                         LAMBDA y : IF y >= r /\ y < r + n THEN -1
                                    ELSE IF y >= r + n /\ y <= bottom THEN y - n
                                    ELSE y))
            ELSE Cur = OldWithBuffer(OldActive.buffer)
       /\ (FedSeq(CSI(FormatDecimal(p), CH_M)) /\ NoProtectedCells(OldActive)) =>
            IF r >= top /\ r <= bottom
            THEN Cur = OldWithBuffer(RowsFrom(
                         LAMBDA y : IF y >= r /\ y <= bottom - n THEN y + n
                                    ELSE IF y > bottom - n /\ y <= bottom THEN -1
                                    ELSE y))
            ELSE Cur = OldWithBuffer(OldActive.buffer)

\* ESC [ 1 L on row 0 of the region of rows 0..1, over the rows 'A', 'B', 'C':
\* a blank row, then 'A', and 'C' below the region where it was.
C31_Witness ==
  /\ FedSeq(CSI(FormatDecimal(1), CH_L))
  /\ Old.scroll_top = 0 /\ Old.scroll_bottom = 1 /\ OldActive.cursor_row = 0
  /\ OldActive.buffer[0].character = CH_A
  /\ OldActive.buffer[Old.column_count].character = CH_B
  /\ OldActive.buffer[2 * Old.column_count].character = CH_C
  /\ CurActive.buffer[0].character = SP
  /\ CurActive.buffer[Cur.column_count].character = CH_A
  /\ CurActive.buffer[2 * Cur.column_count].character = CH_C

(***************************************************************************)
(* SpecScroll: one terminal; CSI n S, CSI n T and ESC M with the full      *)
(* region, narrowed regions and the region CSI 3;1 r leaves, over rows of  *)
(* different letters and with rows in the scrollback.                      *)
(***************************************************************************)
REVERSE_INDEX == <<ESC, CH_M>>

ScrollCounts == {1, 2, 9}

InputsScroll ==
  { CSI(FormatDecimal(n), f) : n \in ScrollCounts, f \in {CH_S, CH_T} }
    \cup { REVERSE_INDEX, LETTER_ROWS, <<CH_B, LF, LF, LF>>, PROTECTED_A, ALT_ON,
           CSI(Params2(2, 3), CH_r), CSI(Params2(1, 2), CH_r), CSI(Params2(3, 1), CH_r) }

NextScroll == \E data \in InputsScroll : Feed(1, data)

SpecScroll == Init /\ [][NextScroll]_vars

\* The call changed cells of rows [scroll_top, scroll_bottom] of the active
\* screen at most.
OnlyRegionCells ==
  /\ Cur = OldWithBuffer(CurActive.buffer)
  /\ \A idx \in DOMAIN OldActive.buffer :
       (idx \div Old.column_count < Old.scroll_top
          \/ idx \div Old.column_count > Old.scroll_bottom) =>
         CurActive.buffer[idx] = OldActive.buffer[idx]

\* The rows after the region went up by p rows (n after the clamp).
ScrolledUp(p) ==
  LET top == Old.scroll_top
      bottom == Old.scroll_bottom
      n == Min(p, bottom - top + 1)
  IN RowsFrom(LAMBDA y : IF y >= top /\ y <= bottom - n THEN y + n
                         ELSE IF y > bottom - n /\ y <= bottom THEN -1
                         ELSE y)

\* The rows after the region went down by p rows (n after the clamp).
ScrolledDown(p) ==
  LET top == Old.scroll_top
      bottom == Old.scroll_bottom
      n == Min(p, bottom - top + 1)
  IN RowsFrom(LAMBDA y : IF y >= top + n /\ y <= bottom THEN y - n
                         ELSE IF y >= top /\ y < top + n THEN -1
                         ELSE y)

\* C32: CSI n S, CSI n T and ESC M change only cells of rows in
\* [scroll_top, scroll_bottom] and never the cursor, scrollback_head,
\* scrollback_count or a scrollback row; with no protected cells S copies
\* row y+n into row y for y in [top, bottom-n] and blanks the last n rows,
\* T (and ESC M with n = 1) copies row y-n into row y for y in [top+n, bottom]
\* and blanks the first n rows, n clamped to the height of the region.
C32_RegionScroll ==
  /\ \A p \in ScrollCounts :
       /\ FedSeq(CSI(FormatDecimal(p), CH_S)) =>
            /\ OnlyRegionCells
            /\ NoProtectedCells(OldActive) => CurActive.buffer = ScrolledUp(p)
       /\ FedSeq(CSI(FormatDecimal(p), CH_T)) =>
            /\ OnlyRegionCells
            /\ NoProtectedCells(OldActive) => CurActive.buffer = ScrolledDown(p)
  /\ FedSeq(REVERSE_INDEX) =>
       /\ OnlyRegionCells
       /\ NoProtectedCells(OldActive) => CurActive.buffer = ScrolledDown(1)

\* ESC [ 1 S with the region of rows 1..2 over the rows 'A', 'B', 'C': 'A'
\* stayed above the region, 'C' went up to row 1 and row 2 is blank.
C32_Witness ==
  /\ FedSeq(CSI(FormatDecimal(1), CH_S))
  /\ Old.scroll_top = 1 /\ Old.scroll_bottom = 2
  /\ OldActive.buffer[0].character = CH_A
  /\ OldActive.buffer[2 * Old.column_count].character = CH_C
  /\ CurActive.buffer[0].character = CH_A
  /\ CurActive.buffer[Cur.column_count].character = CH_C
  /\ CurActive.buffer[2 * Cur.column_count].character = SP

(***************************************************************************)
(* SpecRing: one terminal; buffers that evict one to ScrollbackLines + 1   *)
(* rows by newlines on the last row, each evicted row marked by its own    *)
(* letter, on either screen and with the view scrolled.                    *)
(***************************************************************************)
\* The bytes of evictions j..k: the screen erased, letter j written at
\* (0, 0), the cursor sent to the last row, a newline.
RECURSIVE Evictions(_, _)
Evictions(j, k) ==
  IF j > k THEN <<>>
  ELSE ERASE_ALL \o CSI(<<>>, CH_H) \o <<CH_A + j - 1>> \o CSI(Params2(9, 1), CH_H) \o <<LF>>
         \o Evictions(j + 1, k)

EvictionCounts == 1..(ScrollbackLines + 1)

InputsRing ==
  { Evictions(1, k) : k \in EvictionCounts } \cup { <<CH_A>>, <<LF>>, ALT_ON, ALT_OFF }

NextRing ==
  \/ \E data \in InputsRing : Feed(1, data)
  \/ \E offset \in Offsets : Scroll(1, offset)

SpecRing == Init /\ [][NextRing]_vars

\* The valid entries of the ring, oldest first: entry i is at ring index
\* (head - count + i) mod SCROLLBACK_LINES.
RingEntries(t) ==
  [i \in 1..t.scrollback_count |->
     t.scrollback[(t.scrollback_head - t.scrollback_count + (i - 1) + ScrollbackLines)
                    % ScrollbackLines]]

\* The row that eviction j of a buffer evicts.
EvictedRow(t, j) ==
  [x \in 0..(t.column_count - 1) |->
     IF x = 0 THEN [character |-> CH_A + j - 1, color |-> DEFAULT_COLOR, protected |-> 0]
     ELSE BlankCell(t)]

\* The last n elements of a sequence (all of it when it has fewer).
LastOf(seq, n) ==
  IF Len(seq) <= n THEN seq ELSE SubSeq(seq, Len(seq) - n + 1, Len(seq))

\* C33: the scrollback is a FIFO ring.  A new terminal has count = head = 0;
\* k evictions by newlines turn the entries e (oldest first) into the last
\* SCROLLBACK_LINES of e followed by the k evicted rows in their order, add
\* k to the head modulo SCROLLBACK_LINES and to the count up to
\* SCROLLBACK_LINES, so that after k evictions in all count = min(k,
\* SCROLLBACK_LINES), head = k mod SCROLLBACK_LINES and the entry at ring
\* index (head - count + i) mod SCROLLBACK_LINES is the (k - count + i)-th
\* evicted row; a full ring loses only its oldest entry per eviction.
C33_ScrollbackFifo ==
  /\ lastcall.op = "create" =>
       \A id \in TermIds : terminals[id].scrollback_count = 0 /\ terminals[id].scrollback_head = 0
  /\ \A id \in TermIds :
       terminals[id].scrollback_count < ScrollbackLines =>
         terminals[id].scrollback_head = terminals[id].scrollback_count
  /\ \A k \in EvictionCounts :
       FedSeq(Evictions(1, k)) =>
         /\ Cur.scrollback_count = Min(Old.scrollback_count + k, ScrollbackLines)
         /\ Cur.scrollback_head = (Old.scrollback_head + k) % ScrollbackLines
         /\ RingEntries(Cur) =
              LastOf(RingEntries(Old) \o [j \in 1..k |-> EvictedRow(Old, j)], ScrollbackLines)
         /\ (steps = 1) =>
              /\ Cur.scrollback_count = Min(k, ScrollbackLines)
              /\ Cur.scrollback_head = k % ScrollbackLines
              /\ \A i \in 0..(Cur.scrollback_count - 1) :
                   Cur.scrollback[(Cur.scrollback_head - Cur.scrollback_count + i
                                     + ScrollbackLines) % ScrollbackLines]
                     = EvictedRow(Cur, k - Cur.scrollback_count + i + 1)

\* One eviction into a full ring: the oldest entry is gone, the others moved
\* up by one place and the evicted row is the newest.
C33_Witness ==
  /\ FedSeq(Evictions(1, 1))
  /\ Old.scrollback_count = ScrollbackLines
  /\ Cur.scrollback_count = ScrollbackLines
  /\ RingEntries(Cur)[ScrollbackLines] = EvictedRow(Cur, 1)
  /\ \A i \in 1..(ScrollbackLines - 1) : RingEntries(Cur)[i] = RingEntries(Old)[i + 1]
  /\ RingEntries(Old)[1] # RingEntries(Old)[ScrollbackLines]

\* C34: for every scroll_offset s in [0, scrollback_count] and every view
\* row y in [0, rows), ozterm_get_row returns row y of the active screen
\* when s = 0, the scrollback entry with logical index scrollback_count - s + y
\* when y < s, and row y - s of the active screen when y >= s; the ring index
\* is in [0, SCROLLBACK_LINES) and the screen row index in [0, rows).
C34_ViewRows ==
  \A id \in TermIds :
    LET t == terminals[id]
        s == t.scroll_offset
    IN /\ s >= 0 /\ s <= t.scrollback_count
       /\ \A y \in 0..(t.row_count - 1) :
            LET row == ozterm_get_row(t, y)
            IN /\ s = 0 => row = [from |-> "screen", index |-> y]
               /\ (s > 0 /\ y < s) =>
                    /\ row.from = "scrollback"
                    /\ row.index \in 0..(ScrollbackLines - 1)
                    /\ t.scrollback[row.index] = RingEntries(t)[t.scrollback_count - s + y + 1]
               /\ (s > 0 /\ y >= s) => row = [from |-> "screen", index |-> y - s]
               /\ row.from = "screen" => row.index \in 0..(t.row_count - 1)

\* The view is scrolled back by the whole of a full ring that has wrapped:
\* the first view rows come from the ring, oldest first, and the first row
\* below them is row 0 of the screen.
C34_Witness ==
  /\ lastcall.op = "scroll"
  /\ Cur.scroll_offset = ScrollbackLines
  /\ Cur.scrollback_count = ScrollbackLines
  /\ Cur.scrollback_head # 0
  /\ ozterm_get_row(Cur, 0).from = "scrollback"
  /\ Cur.scrollback[ozterm_get_row(Cur, 0).index] = RingEntries(Cur)[1]
  /\ ozterm_get_row(Cur, ScrollbackLines) = [from |-> "screen", index |-> 0]

(***************************************************************************)
(* SpecUnknown: one terminal; CSI sequences the dispatch does not          *)
(* recognize, fed on either screen over text, a narrowed region, rows in   *)
(* the scrollback and a scrolled view.                                     *)
(***************************************************************************)
\* Final bytes without a case in the dispatch.
UnhandledFinals == {CH_E, CH_Q, CH_R, CH_Z, CH_rbracket, CH_tilde}

\* Unhandled final bytes, and handled ones with parameters they do not
\* support: CSI 5 n, CSI c, CSI 1 c, CSI 1049 h, CSI 1049 l, CSI ? 5 h, CSI 12 t.
UnrecognizedSeqs ==
  { CSI(<<>>, f) : f \in UnhandledFinals }
    \cup { CSI(<<CH_5>>, CH_n), CSI(<<>>, CH_c), CSI(<<CH_1>>, CH_c),
           CSI(STR_1049, CH_h), CSI(STR_1049, CH_l), CSI(<<CH_quest, CH_5>>, CH_h),
           CSI(STR_12, CH_t) }

InputsUnknown ==
  UnrecognizedSeqs
    \cup { LETTER_ROWS, <<CH_B, LF, LF, LF>>, PROTECTED_A, ALT_ON, CSI(Params2(2, 3), CH_r) }

NextUnknown ==
  \/ \E data \in InputsUnknown : Feed(1, data)
  \/ \E offset \in Offsets : Scroll(1, offset)

SpecUnknown == Init /\ [][NextUnknown]_vars

\* C35: an unrecognized CSI sequence (an unhandled final byte, or a handled
\* one with parameters it does not support) changes no cell, cursor, scroll
\* region, active-screen selection or scrollback content, makes no
\* write_to_master call, prints one diagnostic and leaves the parser in
\* NORMAL.
C35_UnrecognizedDiscarded ==
  \A data \in UnrecognizedSeqs :
    FedSeq(data) =>
      /\ Cur = [Old EXCEPT !.scroll_offset = 0]
      /\ written = prev.written
      /\ events = << <<"printf_unhandled">> >>
      /\ parser.parse_state = "NORMAL"
      /\ ~ub

\* ESC [ 5 n on the alternate screen, with a row in the scrollback, changed
\* nothing and wrote nothing.
C35_Witness ==
  /\ FedSeq(CSI(<<CH_5>>, CH_n))
  /\ Old.alternative_active = 1 /\ Cur.alternative_active = 1
  /\ Old.scrollback_count > 0
  /\ Cur.scrollback = Old.scrollback
  /\ written = prev.written

(***************************************************************************)
(* SpecProgress: one terminal; unfinished sequences of every kind, each    *)
(* followed by single bytes of every class.                                *)
(***************************************************************************)
\* Buffers that end inside a sequence: after ESC, in G0, G1, HASH, CSI
\* (without and with a parameter) and OSC.
UnfinishedSeqs ==
  { <<ESC>>, <<ESC, CH_lparen>>, <<ESC, CH_rparen>>, <<ESC, CH_hash>>,
    <<ESC, CH_lbracket>>, <<ESC, CH_lbracket, CH_2>>, <<ESC, CH_rbracket>> }

\* One byte of each class the states distinguish, 0x00 among them.
ByteSamples == {NUL, BEL, LF, ESC, CH_0, CH_8, CH_semi, CH_quest, CH_A, CH_lbracket, DEL}

InputsProgress == UnfinishedSeqs \cup { <<b>> : b \in ByteSamples } \cup { LETTER_ROWS }

NextProgress == \E data \in InputsProgress : Feed(1, data)

SpecProgress == Init /\ [][NextProgress]_vars

\* The last call fed the single byte b with the parser in state st.
FedByteIn(b, st) == IsFeed /\ lastcall.data = <<b>> /\ prev.parser.parse_state = st

\* The call changed no cell, cursor or other field of the terminal (the view
\* offset apart) and wrote no reply.
NothingChanged == Cur = [Old EXCEPT !.scroll_offset = 0] /\ written = prev.written

\* What C36 says of the byte b.
ProgressOn(b) ==
  /\ \A st \in {"ESC", "G0", "G1", "HASH"} : FedByteIn(b, st) => parser.parse_state # st
  /\ FedByteIn(b, "CSI") =>
       IF IsDigit(b) \/ b \in {CH_semi, CH_quest, CH_gt}
       THEN parser.parse_state = "CSI" /\ NothingChanged
       ELSE /\ parser.parse_state = "NORMAL"
            /\ (b < CH_at \/ b > CH_tilde) => NothingChanged /\ events = <<>>
  /\ FedByteIn(b, "OSC") =>
       parser.parse_state = (IF b = BEL THEN "NORMAL" ELSE IF b = ESC THEN "ESC" ELSE "OSC")
  /\ \A st \in {"OSC", "G0", "G1"} : FedByteIn(b, st) => NothingChanged

\* C36: from ESC, G0, G1 or HASH the parser leaves that state after one more
\* byte of any value; from CSI it returns to NORMAL on the first byte that is
\* not a digit, ';', '?' or '>', dispatching only when that byte is in
\* 0x40..0x7E; from OSC it leaves only on BEL (to NORMAL) or ESC (to ESC);
\* a byte fed in OSC, G0 or G1 changes no cell, cursor or reply output.
C36_ParserProgress == \A b \in ByteSamples : ProgressOn(b)

\* The part of C36 that the code meets: every byte but 0x00.
ParserProgressNonZero == \A b \in ByteSamples \ {NUL} : ProgressOn(b)

(***************************************************************************)
(* SpecCaps: one terminal; CSI parameter strings and OSC payloads up to    *)
(* and beyond the sizes of their buffers, continued byte by byte.          *)
(***************************************************************************)
\* n times the byte c.
Repeat(c, n) == [i \in 1..n |-> c]

\* A parameter string that fills the buffer: zeros and a final 2.
FULL_PARAM == Repeat(CH_0, PARAM_BUF_SIZE - 2) \o <<CH_2>>

\* ESC [ with the full parameter string, one digit more, and the final B.
LONG_CSI_B == CSI(FULL_PARAM \o <<CH_5>>, CH_B)

InputsCaps ==
  { LONG_CSI_B,
    <<ESC, CH_lbracket>> \o FULL_PARAM,
    <<ESC, CH_lbracket>> \o FULL_PARAM \o <<CH_5, CH_semi>>,
    <<ESC, CH_rbracket>> \o Repeat(CH_A, OSC_BUF_SIZE - 1),
    <<ESC, CH_rbracket>> \o Repeat(CH_A, OSC_BUF_SIZE + 2),
    <<ESC, CH_lbracket>>, <<ESC, CH_rbracket>>,
    <<CH_5>>, <<CH_semi>>, <<CH_A>>, <<CH_B>>, <<BEL>>, <<LF>> }

NextCaps == \E data \in InputsCaps : Feed(1, data)

SpecCaps == Init /\ [][NextCaps]_vars

\* C37: the accumulated CSI parameter string never exceeds 31 characters and
\* the accumulated OSC payload never exceeds 63 bytes; a byte beyond the cap
\* is dropped and the parser stays in its state; an over-long CSI sequence
\* dispatches on its final byte with the first 31 parameter characters.
C37_BufferCaps ==
  /\ Len(parser.param_buf) <= PARAM_BUF_SIZE - 1
  /\ parser.param_len <= PARAM_BUF_SIZE - 1
  /\ Len(parser.osc_buf) <= OSC_BUF_SIZE - 1
  /\ parser.osc_index <= OSC_BUF_SIZE - 1
  /\ \A b \in {CH_5, CH_semi} :
       (FedByteIn(b, "CSI") /\ prev.parser.param_len = PARAM_BUF_SIZE - 1) =>
         /\ parser.parse_state = "CSI"
         /\ parser.param_buf = prev.parser.param_buf
         /\ parser.param_len = prev.parser.param_len
         /\ NothingChanged
  /\ \A b \in {CH_5, CH_semi, CH_A, CH_B, LF} :
       (FedByteIn(b, "OSC") /\ prev.parser.osc_index = OSC_BUF_SIZE - 1) =>
         /\ parser.parse_state = "OSC"
         /\ parser.osc_buf = prev.parser.osc_buf
         /\ parser.osc_index = prev.parser.osc_index
         /\ NothingChanged
  /\ FedSeq(LONG_CSI_B) => Cur = InsteadOf(CSI(<<CH_2>>, CH_B)) /\ parser.parse_state = "NORMAL"
  /\ (FedByteIn(CH_B, "CSI") /\ prev.parser.param_buf = FULL_PARAM) =>
       /\ CursorOf(CurActive) =
            <<Min(OldActive.cursor_row + 2, Old.row_count - 1), OldActive.cursor_column>>
       /\ parser.parse_state = "NORMAL"

\* The parameter buffer was full, two more parameter bytes had been dropped,
\* and the final B moved the cursor down by the 2 of the kept string.
C37_Witness ==
  /\ FedByteIn(CH_B, "CSI")
  /\ prev.parser.param_buf = FULL_PARAM
  /\ prev.parser.seq_len > PARAM_BUF_SIZE
  /\ CursorOf(OldActive) = <<0, 0>>
  /\ CursorOf(CurActive) = <<2, 0>>

(***************************************************************************)
(* SpecPrivate: one terminal; mode 1049 with the marker first, last and    *)
(* absent, and CSI sequences built byte by byte.                           *)
(***************************************************************************)
\* ESC [ 1049 ? h: the marker follows the parameter.
ALT_ON_MARKER_LAST == CSI(STR_1049 \o <<CH_quest>>, CH_h)

InputsPrivate ==
  { ALT_ON, ALT_OFF, ALT_ON_MARKER_LAST, CSI(STR_1049, CH_h),
    CSI(<<CH_gt>> \o STR_1049, CH_h),
    <<ESC>>, <<CH_lbracket>>, <<ESC, CH_lbracket>>,
    <<CH_quest>>, <<CH_gt>>, <<CH_1>>, <<CH_semi>>, <<CH_h>>, <<CH_A>> }

NextPrivate == \E data \in InputsPrivate : Feed(1, data)

SpecPrivate == Init /\ [][NextPrivate]_vars

\* The marker byte is not stored and every ESC [ starts with is_private = 0
\* and an empty parameter string; a marker sets is_private.
PrivateMarkerNotStored ==
  /\ FedByteIn(CH_lbracket, "ESC") =>
       /\ parser.parse_state = "CSI"
       /\ parser.is_private = 0
       /\ parser.param_len = 0
       /\ parser.param_buf = <<>>
  /\ \A m \in {CH_quest, CH_gt} :
       FedByteIn(m, "CSI") =>
         /\ parser.parse_state = "CSI"
         /\ parser.is_private = 1
         /\ parser.param_len = prev.parser.param_len
         /\ parser.param_buf = prev.parser.param_buf
  /\ \A b \in {CH_1, CH_semi} :
       FedByteIn(b, "CSI") => parser.is_private = prev.parser.is_private
  /\ \A on \in {ALT_ON, CSI(<<CH_gt>> \o STR_1049, CH_h)} :
       (FedSeq(on) /\ Old.alternative_active = 0) => Cur.alternative_active = 1
  /\ FedSeq(CSI(STR_1049, CH_h)) => NothingChanged

\* C38: is_private is true at dispatch if and only if the first byte after
\* ESC [ was '?' or '>'; the marker byte is never appended to the parameter
\* buffer, and every ESC [ starts with is_private = false and an empty
\* parameter buffer.
C38_PrivateMarker ==
  /\ FedByteIn(CH_lbracket, "ESC") =>
       /\ parser.is_private = 0
       /\ parser.param_len = 0
       /\ parser.param_buf = <<>>
  /\ \A m \in {CH_quest, CH_gt} :
       FedByteIn(m, "CSI") =>
         /\ parser.is_private = (IF prev.parser.seq_len = 0 THEN 1 ELSE prev.parser.is_private)
         /\ parser.param_buf = prev.parser.param_buf
  /\ \A b \in {CH_1, CH_semi} :
       FedByteIn(b, "CSI") => parser.is_private = prev.parser.is_private
  /\ (FedSeq(ALT_ON) /\ Old.alternative_active = 0) => Cur.alternative_active = 1
  /\ FedSeq(ALT_ON_MARKER_LAST) => Cur = InsteadOf(CSI(STR_1049, CH_h))

(***************************************************************************)
(* SpecIndex: one terminal; ESC D and ESC E on filled screens, with the    *)
(* cursor on every row, a narrowed region, protected cells, rows in the    *)
(* scrollback and the alternative screen.                                  *)
(***************************************************************************)
INDEX == <<ESC, CH_D>>

NEXT_LINE == <<ESC, CH_E>>

InputsIndex ==
  { INDEX, NEXT_LINE, LETTER_ROWS, <<CH_B, LF, LF, LF>>, <<CH_A>>, <<LF>>,
    PROTECTED_A, ALT_ON, CSI(Params2(2, 2), CH_H), CSI(<<>>, CH_C),
    CSI(Params2(1, 2), CH_r) \o CSI(Params2(2, 1), CH_H), CSI(Params2(2, 3), CH_r) }

NextIndex ==
  \/ \E data \in InputsIndex : Feed(1, data)
  \/ \E offset \in Offsets : Scroll(1, offset)

SpecIndex == Init /\ [][NextIndex]_vars

\* The terminal t with the active cursor at (row, column) and the live view.
CursorMoved(t, row, column) ==
  [with_active(t, [screen_active(t) EXCEPT !.cursor_row = row, !.cursor_column = column])
     EXCEPT !.scroll_offset = 0]

InputsRead ==
  { <<>>, <<CH_A>>, <<CH_A, CH_B>>, <<NUL>>, <<CH_A, NUL, CH_B>>, <<LF>>,
    <<CH_B, LF, LF, LF>>, <<ESC>>, <<CH_lbracket>>, <<CH_H>>,
    CSI(Params2(2, 2), CH_H), ALT_ON }

NextRead ==
  \/ \E data \in InputsRead : Feed(1, data)
  \/ \E offset \in Offsets : Scroll(1, offset)

SpecRead == Init /\ [][NextRead]_vars

\* The size argument of the last call of ozterm_have_read_from_master.
SizeOfRead == Len(lastcall.data)

\* The call changed neither the terminal nor the parser, wrote nothing and
\* reported nothing to the host.
NoStateChanged ==
  /\ terminals = prev.terminals
  /\ parser = prev.parser
  /\ written = prev.written
  /\ events = <<>>

\* The loop reads at most the byte data[size] beyond the bytes it was given,
\* and a call with size = 0 changes no state.
ReadsAtMostOnePast ==
  IsFeed =>
    /\ nread <= SizeOfRead + 1
    /\ SizeOfRead = 0 => NoStateChanged

\* C40: ozterm_have_read_from_master(data, size) reads only data[0 .. size-1]:
\* it never reads data[size], and with size = 0 it reads no byte and changes
\* no state.
C40_ReadsOnlyItsBuffer ==
  IsFeed =>
    /\ nread <= SizeOfRead
    /\ SizeOfRead = 0 => (nread = 0 /\ NoStateChanged)

====
